---- MODULE Spec2Model ----
(***************************************************************************)
(* Model of the medical-services chatbot back end:                         *)
(*   - HybridRetriever (services/hybrid_retriever.py): boot and search     *)
(*   - ChatRouter.answer_question (services/router.py)                     *)
(*   - the offline index build (scripts/build_kb_index.py)                 *)
(*   - the HTML extractor (services/knowledge_base.py)                     *)
(*                                                                         *)
(* Conventions.  Python lists are TLA+ sequences, so positions are 1-based *)
(* here and 0-based in the source.  The Hebrew payer/tier labels of the    *)
(* source are written with their transliterated aliases.  Python "falsy"   *)
(* hints (None and "") are both the empty string NoHint.  Similarities and *)
(* scores are integers: the score of the source times ScoreScale.          *)
(***************************************************************************)
EXTENDS Integers, Sequences, FiniteSets, TLC

VARIABLES
    indexFile,        \* the artifact at KB_INDEX_PATH: Missing or a built index
    kb_loaded,        \* ChatRouter.kb_loaded
    meta,             \* HybridRetriever.meta
    X,                \* HybridRetriever.X (NoneX before boot)
    embedder,         \* HybridRetriever.embedder: "none" (lazy) or "ready"
    pc,               \* position of the serving process
    caller,           \* who invoked search: "none", "search" (direct), "router"
    query,            \* search argument `query`
    hmo,              \* search argument `hmo`
    tier,             \* search argument `tier`
    top_k,            \* search argument `top_k`
    kcut,             \* the `k` handed to _keyword_filter
    allowed_sources,  \* search local `allowed_sources`
    trace,            \* cand_idx after each stage of search (lines 101..143)
    cand_idx,         \* search local `cand_idx` as handed to re-ranking
    attempts,         \* failed HTTP requests of the embed call in progress
    sims,             \* search local `sims` (per position of cand_idx)
    top_idx,          \* search local `top_idx`: positions of cand_idx, best first
    results,          \* the list search returned
    outcome,          \* "none", "returned" or "raised" for search
    chat_calls,       \* calls of AzureOpenAIClient.chat in the current turn
    answer,           \* how answer_question ended: NoAnswer, Raised or Returned
    build,            \* frame of scripts/build_kb_index.py main()
    kb,               \* frame of services/knowledge_base.py load_kb()
    env,              \* which environment variables are set: [chat, embeddings]
    boot_error,       \* the exception that ended startup ("" when none)
    collect,          \* how collect_user_info ended
    client,           \* frame of one call of a client method
    explode,          \* frame of one call of _explode_tiers
    ui                \* st.session_state of the frontend, and its last request

vars == <<indexFile, kb_loaded, meta, X, embedder, pc, caller, query, hmo, tier,
          top_k, kcut, allowed_sources, trace, cand_idx, attempts, sims, top_idx,
          results, outcome, chat_calls, answer, build, kb, env, boot_error,
          collect, client, explode, ui>>

retrieverVars == <<meta, X, embedder>>
callVars == <<caller, query, hmo, tier, top_k, kcut, allowed_sources, trace,
              cand_idx, attempts, sims, top_idx, results, outcome>>
routerVars == <<chat_calls, answer>>
restVars == <<env, boot_error, collect, client, explode, ui>>

-----------------------------------------------------------------------------
(* Bounds and program constants *)

MaxRows == 2              \* rows in a knowledge base / index
MaxAttempts == 3          \* stop_after_attempt(3)
PrefilterK == 200         \* k=200 of the call to _keyword_filter
WindowMin == 10           \* the 10 of max(top_k * 2, 10)
RouterTopK == 5           \* top_k=5 of answer_question
PayerBoost == 115         \* boosts[i] *= 1.15, in hundredths
TierBoost == 110          \* boosts[i] *= 1.10, in hundredths
NoBoost == 100            \* np.ones_like(sims), in hundredths
ScoreScale == NoBoost * NoBoost

\* The cut-offs the prefilter is exercised with: the program's 200 and a
\* small one that bites on a knowledge base of MaxRows rows.
PrefilterKs == {1, PrefilterK}
\* top_k of direct calls of search (answer_question always passes RouterTopK)
TopKs == {1, 2}

-----------------------------------------------------------------------------
(* Data *)

NoHint == ""
\* no file at the index path
Missing == [exists |-> FALSE, X |-> <<>>, meta |-> <<>>]
\* HybridRetriever.X before boot (None): distinct from every loaded array
NoneX == <<[embedding_of |-> <<"None">>]>>
\* answer_question has not ended / raised / returned (text, snippets)
NoAnswer == [kind |-> "none", text |-> "", snippets |-> <<>>]
Raised(why) == [kind |-> "raised", text |-> why, snippets |-> <<>>]
Returned(text, snippets) == [kind |-> "returned", text |-> text, snippets |-> snippets]

Services == {"cleaning", "lenses"}
Hmos == {"maccabi", "clalit"}
Tiers == {"gold", "silver"}
Dentel == "dentel_services.html"
Optometry == "optometry_services.html"
Workshops == "workshops_services.html"
RowSources == {Dentel, Optometry}
\* the document each service is listed in
HomeOf(svc) == IF svc = "cleaning" THEN Dentel ELSE Optometry

\* _FILE_CATEGORY_MAP
FileCategoryMap ==
    [s \in {Dentel, Optometry, Workshops} |->
        CASE s = Dentel -> "dental clinics"
          [] s = Optometry -> "optometry"
          [] s = Workshops -> "health workshops"]

MkRow(svc, h, t, src) ==
    [category |-> FileCategoryMap[src], service |-> svc, hmo |-> h,
     tier |-> t, text |-> "benefit", source |-> src]

\* Every (service, payer, tier) in the service's own document, and one row
\* that repeats a (service, payer, tier) in another document.
RowUniverse ==
    {MkRow(svc, h, t, HomeOf(svc)) : svc \in Services, h \in Hmos, t \in Tiers}
    \cup {MkRow("cleaning", "maccabi", "gold", Optometry)}

RECURSIVE SeqsUpTo(_, _)
SeqsUpTo(S, n) ==
    IF n = 0 THEN {<<>>}
    ELSE LET shorter == SeqsUpTo(S, n - 1)
         IN  shorter \cup {Append(s, e) : s \in {t \in shorter : Len(t) = n - 1}, e \in S}

KnowledgeBases == SeqsUpTo(RowUniverse, MaxRows)

Min(a, b) == IF a < b THEN a ELSE b
Max(a, b) == IF a > b THEN a ELSE b
Range(s) == {s[i] : i \in 1..Len(s)}

\* str.lower, re.IGNORECASE
lower(tok) ==
    CASE tok = "Gold" -> "gold"
      [] tok = "Maccabi" -> "maccabi"
      [] OTHER -> tok

\* make_chunk_text: the template string, as the tuple of the values it joins
make_chunk_text(row) ==
    <<row.category, row.service, "HMO:", row.hmo, "Tier:", row.tier, row.text>>

\* The vector the embedding service returns for a text.
Embed(text) == [embedding_of |-> text]

\* The meta record main() appends for a row
MetaRecord(r) ==
    [category |-> r.category, service |-> r.service, hmo |-> r.hmo,
     tier |-> r.tier, text |-> r.text, source |-> r.source]

\* the six fields of a row
SixFields(r) == <<r.category, r.service, r.hmo, r.tier, r.text, r.source>>

\* The artifact a complete build of `rows` writes
BuiltIndex(rows) ==
    [exists |-> TRUE,
     X |-> [i \in 1..Len(rows) |-> Embed(make_chunk_text(rows[i]))],
     meta |-> [i \in 1..Len(rows) |-> MetaRecord(rows[i])]]

-----------------------------------------------------------------------------
(* Queries.  A query text is represented by what search observes of it:    *)
(* the keys of _QUERY_SOURCE_HINTS contained in its normalised text, and   *)
(* the fuzz.WRatio of its normalised text against each service name.       *)

\* _QUERY_SOURCE_HINTS, restricted to three of its keys
QuerySourceHints ==
    [key \in {"dental", "dent", "workshop"} |->
        CASE key = "dental" -> {Dentel}
          [] key = "dent" -> {Dentel}
          [] key = "workshop" -> {Workshops}]

\* WRatio of a text close to "cleaning", and of one close to neither service
NearCleaning == [s \in Services |-> IF s = "cleaning" THEN 90 ELSE 40]
Flat == [s \in Services |-> 40]
\* the queries: a text containing "dental" also contains "dent"
Queries ==
    [keys : {{}, {"dental", "dent"}}, wratio : {NearCleaning, Flat}]
    \cup [keys : {{"workshop"}, {"dental", "dent", "workshop"}}, wratio : {Flat}]

\* max(fuzz.WRatio(_norm(syn), _norm(svc)) for syn in _SERVICE_SYNONYMS)
SynonymScore(svc) == IF svc = "lenses" THEN 60 ELSE 40

-----------------------------------------------------------------------------
(* HybridRetriever: pure parts of search *)

\* _allowed_sources_for_query
allowed_sources_for_query(q) ==
    UNION {QuerySourceHints[key] : key \in q.keys}

\* the prefilter score of one service (lines 88-91)
PrefilterScore(q, svc) == Max(q.wratio[svc], SynonymScore(svc))

\* list.sort(key=..., reverse=True): stable, descending
RECURSIVE InsertDesc(_, _, _)
InsertDesc(sorted, x, key) ==
    IF sorted = <<>> THEN <<x>>
    ELSE IF key[Head(sorted)] >= key[x]
         THEN <<Head(sorted)>> \o InsertDesc(Tail(sorted), x, key)
         ELSE <<x>> \o sorted

RECURSIVE StableSortDesc(_, _)
StableSortDesc(s, key) ==
    IF s = <<>> THEN <<>>
    ELSE InsertDesc(StableSortDesc(SubSeq(s, 1, Len(s) - 1), key), s[Len(s)], key)

\* the positions of m, ascending, that satisfy Keep
RECURSIVE AscendingFrom(_, _)
AscendingFrom(S, i) ==
    IF S = {} THEN <<>>
    ELSE IF i \in S THEN <<i>> \o AscendingFrom(S \ {i}, i + 1)
         ELSE AscendingFrom(S, i + 1)
\* list(set(a) | set(b)) of small non-negative ints: ascending
ListOfSet(S) == AscendingFrom(S, 1)

\* mutant: the source condition is dropped
GatedAll(m, allowed) == 1..Len(m)

\* the rows a query with these allowed sources may use (lines 86, 107, 140)
Gated(m, allowed) ==
    {i \in 1..Len(m) : allowed = {} \/ m[i].source \in allowed}

\* _keyword_filter
keyword_filter(m, q, allowed, k) ==
    LET score == [i \in 1..Len(m) |-> PrefilterScore(q, m[i].service)]
        scored == StableSortDesc(ListOfSet(Gated(m, allowed)), score)
        kept == SubSeq(scored, 1, Min(k, Len(scored)))
    IN  IF kept # <<>> THEN kept ELSE [i \in 1..Len(m) |-> i]

\* mutant: the widening ignores the gated sources
WidenUngated(m, cand, allowed, h, t) ==
    IF h # NoHint /\ t # NoHint
    THEN LET tier_pool == {i \in 1..Len(m) : m[i].hmo = h /\ m[i].tier = t}
         IN  IF tier_pool # {} THEN ListOfSet(Range(cand) \cup tier_pool) ELSE cand
    ELSE cand

\* mutant: no widening
WidenNone(m, cand, allowed, h, t) == cand

\* lines 104-113: exact-match widening
Widen(m, cand, allowed, h, t) ==
    IF h # NoHint /\ t # NoHint
    THEN LET tier_pool == {i \in Gated(m, allowed) : m[i].hmo = h /\ m[i].tier = t}
         IN  IF tier_pool # {} THEN ListOfSet(Range(cand) \cup tier_pool) ELSE cand
    ELSE cand

\* mutant: the payer preference as a hard filter
NarrowHmoHard(m, cand, h) ==
    IF h # NoHint THEN SelectSeq(cand, LAMBDA i : m[i].hmo = h) ELSE cand

\* lines 116-119: prefer HMO
NarrowHmo(m, cand, h) ==
    IF h # NoHint
    THEN LET hmo_only == SelectSeq(cand, LAMBDA i : m[i].hmo = h)
         IN  IF hmo_only # <<>> THEN hmo_only ELSE cand
    ELSE cand

\* lines 120-124: prefer tier
NarrowTier(m, cand, t) ==
    IF t # NoHint
    THEN LET tier_only == SelectSeq(cand, LAMBDA i : m[i].tier = t)
         IN  IF tier_only # <<>> THEN tier_only ELSE cand
    ELSE cand

\* lines 126-128: safety
SafetyFloor(m, cand) ==
    IF cand = <<>> THEN [i \in 1..Len(m) |-> i] ELSE cand

\* mutant: backfill takes the rows of the payer from every source
BackfillUngated(m, cand, allowed, h, t) ==
    IF h # NoHint /\ t # NoHint
    THEN LET exact == SelectSeq(cand, LAMBDA i : m[i].hmo = h /\ m[i].tier = t)
             same_hmo == {i \in 1..Len(m) : m[i].hmo = h}
         IN  IF exact = <<>> THEN ListOfSet(Range(cand) \cup same_hmo) ELSE cand
    ELSE cand

\* mutant: backfill replaces the candidates instead of joining them
BackfillReplace(m, cand, allowed, h, t) ==
    IF h # NoHint /\ t # NoHint
    THEN LET exact == SelectSeq(cand, LAMBDA i : m[i].hmo = h /\ m[i].tier = t)
             same_hmo == {i \in 1..Len(m) :
                            /\ allowed = {} \/ m[i].source \in allowed
                            /\ m[i].hmo = h}
         IN  IF exact = <<>> THEN ListOfSet(same_hmo) ELSE cand
    ELSE cand

\* lines 133-143: backfill
Backfill(m, cand, allowed, h, t) ==
    IF h # NoHint /\ t # NoHint
    THEN LET exact == SelectSeq(cand, LAMBDA i : m[i].hmo = h /\ m[i].tier = t)
             same_hmo == {i \in Gated(m, allowed) : m[i].hmo = h}
         IN  IF exact = <<>> THEN ListOfSet(Range(cand) \cup same_hmo) ELSE cand
    ELSE cand

\* cand_idx after each stage, lines 101-143
Candidates(m, q, h, t, k) ==
    LET allowed == allowed_sources_for_query(q)
        c1 == keyword_filter(m, q, allowed, k)
        c2 == Widen(m, c1, allowed, h, t)
        c3 == NarrowHmo(m, c2, h)
        c4 == NarrowTier(m, c3, t)
        c5 == SafetyFloor(m, c4)
        c6 == Backfill(m, c5, allowed, h, t)
    IN  [prefilter |-> c1, widened |-> c2, by_hmo |-> c3, by_tier |-> c4,
         floored |-> c5, backfilled |-> c6]

\* lines 155-162: score = sims * boosts, times ScoreScale
Boost(row, h, t) ==
    (IF h # NoHint /\ row.hmo = h THEN PayerBoost ELSE NoBoost)
    * (IF t # NoHint /\ row.tier = t THEN TierBoost ELSE NoBoost)

Score(m, cand, sm, h, t) ==
    [i \in 1..Len(cand) |-> sm[i] * Boost(m[cand[i]], h, t)]

\* np.argsort(-score): every ordering of the positions by descending score
\* (the default sort kind is not stable, so ties may come in any order)
RECURSIVE ArgsortFrom(_, _)
ArgsortFrom(score, S) ==
    IF S = {} THEN {<<>>}
    ELSE LET top == {i \in S : \A j \in S : score[i] >= score[j]}
         IN  UNION {{<<i>> \o o : o \in ArgsortFrom(score, S \ {i})} : i \in top}
Argsort(score) == ArgsortFrom(score, DOMAIN score)

DiversityKey(row) == <<row.service, row.hmo, row.tier>>

ResultOf(row, sc) ==
    [score |-> sc, category |-> row.category, service |-> row.service,
     hmo |-> row.hmo, tier |-> row.tier, text |-> row.text, source |-> row.source]

\* mutant: the walk keeps every entry, seen or not
RECURSIVE WalkNoDedup(_, _, _, _, _, _, _)
WalkNoDedup(m, cand, score, rest, k, seen, res) ==
    IF rest = <<>> THEN res
    ELSE LET i == Head(rest)
             res2 == Append(res, ResultOf(m[cand[i]], score[i]))
         IN  IF Len(res2) >= k THEN res2
             ELSE WalkNoDedup(m, cand, score, Tail(rest), k, seen, res2)

\* lines 166-185: the walk over top_idx
RECURSIVE Walk(_, _, _, _, _, _, _)
Walk(m, cand, score, rest, k, seen, res) ==
    IF rest = <<>> THEN res
    ELSE LET i == Head(rest)
             row == m[cand[i]]
             key == DiversityKey(row)
         IN  IF key \in seen
             THEN Walk(m, cand, score, Tail(rest), k, seen, res)
             ELSE LET res2 == Append(res, ResultOf(row, score[i]))
                  IN  IF Len(res2) >= k THEN res2
                      ELSE Walk(m, cand, score, Tail(rest), k, seen \cup {key}, res2)

\* mutant: the window is twice top_k, however small
WindowTwice(k) == k * 2

Window(k) == Max(k * 2, WindowMin)

\* lines 165-185 for one outcome `order` of argsort
Select(m, cand, score, order, k) ==
    Walk(m, cand, score, SubSeq(order, 1, Min(Window(k), Len(order))), k, {}, <<>>)

-----------------------------------------------------------------------------
(* The serving process: ChatRouter and HybridRetriever *)

HintHmos == {NoHint, "maccabi"}
HintTiers == {NoHint, "gold"}
NoQuery == [keys |-> {}, wratio |-> [s \in Services |-> 0]]
NoTrace == [prefilter |-> <<>>, widened |-> <<>>, by_hmo |-> <<>>,
            by_tier |-> <<>>, floored |-> <<>>, backfilled |-> <<>>]
NoMatchAnswer == "I couldn't find a match in the provided knowledge base."
LlmAnswer == "grounded answer"
IdleBuild == [pc |-> "off"]
IdleKb == [pc |-> "off"]
IdleClient == [pc |-> "off"]
IdleExplode == [pc |-> "off"]
IdleUi == [pc |-> "off"]
NoCollect == [kind |-> "none"]
\* os.getenv(...) of the chat and of the embeddings variables gives a value
Envs == [chat : BOOLEAN, embeddings : BOOLEAN]
ChatEnvMissing == "Azure OpenAI chat env vars missing"
EmbeddingsEnvMissing == "Azure embeddings env vars missing"
IndexNotFound == "KB index not found. Run scripts/build_kb_index.py"
Resting == {"constructed", "boot_failed", "idle"}

IndexFiles == {Missing} \cup {BuiltIndex(rows) : rows \in KnowledgeBases}

\* the process starts: app.py is about to construct the router
Init ==
    /\ indexFile \in IndexFiles
    /\ env \in Envs
    /\ boot_error = ""
    /\ collect = NoCollect
    /\ client = IdleClient
    /\ explode = IdleExplode
    /\ ui = IdleUi
    /\ kb_loaded = FALSE
    /\ meta = <<>>
    /\ X = NoneX
    /\ embedder = "none"
    /\ pc = "start"
    /\ caller = "none"
    /\ query = NoQuery
    /\ hmo = NoHint
    /\ tier = NoHint
    /\ top_k = 0
    /\ kcut = 0
    /\ allowed_sources = {}
    /\ trace = NoTrace
    /\ cand_idx = <<>>
    /\ attempts = 0
    /\ sims = <<>>
    /\ top_idx = <<>>
    /\ results = <<>>
    /\ outcome = "none"
    /\ chat_calls = 0
    /\ answer = NoAnswer
    /\ build = IdleBuild
    /\ kb = IdleKb

\* ChatRouter.__init__: AzureOpenAIClient() reads the chat variables and raises
\* when one is missing; HybridRetriever.__init__ leaves the embedder unset
Construct ==
    /\ pc = "start"
    /\ IF env.chat
       THEN pc' = "constructed" /\ UNCHANGED boot_error
       ELSE pc' = "config_failed" /\ boot_error' = ChatEnvMissing
    /\ UNCHANGED <<indexFile, kb_loaded, retrieverVars, callVars, routerVars, build, kb,
                   env, collect, client, explode, ui>>

\* ChatRouter.boot -> HybridRetriever.boot, index present
BootOk ==
    /\ pc = "constructed"
    /\ caller = "none"
    /\ indexFile # Missing
    /\ X' = indexFile.X
    /\ meta' = indexFile.meta
    /\ kb_loaded' = TRUE
    /\ pc' = "idle"
    /\ UNCHANGED <<indexFile, embedder, callVars, routerVars, build, kb, restVars>>

\* mutant: kb_loaded is set before the retriever boots
BootFailMarksLoaded ==
    /\ pc = "constructed"
    /\ caller = "none"
    /\ indexFile = Missing
    /\ kb_loaded' = TRUE
    /\ pc' = "boot_failed"
    /\ boot_error' = IndexNotFound
    /\ UNCHANGED <<indexFile, retrieverVars, callVars, routerVars, build, kb,
                   env, collect, client, explode, ui>>

\* ChatRouter.boot -> HybridRetriever.boot raises RuntimeError: index missing
BootFail ==
    /\ pc = "constructed"
    /\ caller = "none"
    /\ indexFile = Missing
    /\ pc' = "boot_failed"
    /\ boot_error' = IndexNotFound
    /\ UNCHANGED <<indexFile, kb_loaded, retrieverVars, callVars, routerVars, build, kb,
                   env, collect, client, explode, ui>>

\* search, lines 98-150: the candidates are computed, _ensure_embedder
\* constructs the embedding client on first use (which raises when a variable
\* is missing) and the embed call begins
BeginSearch(who, q, h, t, k, kc) ==
    LET c == Candidates(meta, q, h, t, kc)
        configured == embedder = "ready" \/ env.embeddings
    IN  /\ caller' = who
        /\ query' = q
        /\ hmo' = h
        /\ tier' = t
        /\ top_k' = k
        /\ kcut' = kc
        /\ allowed_sources' = allowed_sources_for_query(q)
        /\ trace' = c
        /\ cand_idx' = c.backfilled
        /\ embedder' = IF configured THEN "ready" ELSE "none"
        /\ attempts' = 0
        /\ sims' = <<>>
        /\ top_idx' = <<>>
        /\ results' = <<>>
        /\ outcome' = IF configured THEN "none" ELSE "raised"
        /\ pc' = IF configured THEN "embed" ELSE pc
        /\ chat_calls' = 0
        /\ answer' = IF ~configured /\ who = "router"
                      THEN Raised(EmbeddingsEnvMissing) ELSE NoAnswer

\* a direct call of HybridRetriever.search, its arguments drawn from the
\* given sets
SearchWith(queries, topks, kcuts) ==
    /\ pc \in Resting
    /\ caller = "none"
    /\ \E q \in queries, h \in HintHmos, t \in HintTiers, k \in topks, kc \in kcuts :
          BeginSearch("search", q, h, t, k, kc)
    /\ UNCHANGED <<indexFile, kb_loaded, meta, X, build, kb, restVars>>

SearchCall == SearchWith(Queries, TopKs, PrefilterKs)

\* answer_question, lines 95-96: KB not initialized
AnswerNotLoaded ==
    /\ pc \in Resting
    /\ caller = "none"
    /\ ~kb_loaded
    /\ caller' = "router"
    /\ outcome' = "none"
    /\ results' = <<>>
    /\ chat_calls' = 0
    /\ answer' = Raised("KB not initialized")
    /\ UNCHANGED <<indexFile, kb_loaded, retrieverVars, pc, query, hmo, tier, top_k,
                   kcut, allowed_sources, trace, cand_idx, attempts, sims, top_idx, build, kb, restVars>>

\* answer_question, lines 95-108, for a conversation holding a user message
AnswerQuestion ==
    /\ pc \in Resting
    /\ caller = "none"
    /\ kb_loaded
    /\ \E q \in Queries, h \in HintHmos, t \in HintTiers :
          BeginSearch("router", q, h, t, RouterTopK, PrefilterK)
    /\ UNCHANGED <<indexFile, kb_loaded, meta, X, build, kb, restVars>>

\* where the process rests once the current call has ended
AfterCall == IF kb_loaded THEN "idle" ELSE "constructed"

\* mutant: once the attempts are exhausted search returns an empty list
EmbedFailSilent ==
    /\ pc = "embed"
    /\ attempts < MaxAttempts
    /\ attempts' = attempts + 1
    /\ IF attempts' = MaxAttempts
       THEN /\ outcome' = "returned"
            /\ pc' = IF caller = "router" THEN "qa" ELSE AfterCall
       ELSE /\ UNCHANGED <<outcome, pc>>
    /\ UNCHANGED <<indexFile, kb_loaded, retrieverVars, caller, query, hmo, tier, top_k,
                   kcut, allowed_sources, trace, cand_idx, sims, top_idx, results, chat_calls,
                   answer, build, kb, restVars>>

\* AzureEmbeddingClient.embed: one HTTP request that fails
EmbedFail ==
    /\ pc = "embed"
    /\ attempts < MaxAttempts
    /\ attempts' = attempts + 1
    /\ IF attempts' = MaxAttempts
       THEN /\ outcome' = "raised"
            /\ pc' = AfterCall
            /\ answer' = IF caller = "router" THEN Raised("embedding") ELSE answer
       ELSE /\ UNCHANGED <<outcome, pc, answer>>
    /\ UNCHANGED <<indexFile, kb_loaded, retrieverVars, caller, query, hmo, tier, top_k,
                   kcut, allowed_sources, trace, cand_idx, sims, top_idx, results, chat_calls,
                   build, kb, restVars>>

\* the cosine similarities a query vector can have with the candidates:
\* equal stored vectors have equal similarity
SimVals == {-1, 1}
SimChoices(cand) ==
    {sm \in [1..Len(cand) -> SimVals] :
        \A i, j \in 1..Len(cand) : X[cand[i]] = X[cand[j]] => sm[i] = sm[j]}

\* embed answers; search, lines 150-185, for the similarities in `choices`
EmbedReturns(choices) ==
    /\ pc = "embed"
    /\ attempts < MaxAttempts
    /\ attempts' = 0
    /\ IF X = NoneX
       THEN \* self.X[cand_idx] on None: TypeError
            /\ outcome' = "raised"
            /\ pc' = AfterCall
            /\ UNCHANGED <<sims, top_idx, results>>
       ELSE \E sm \in choices :
               LET score == Score(meta, cand_idx, sm, hmo, tier)
               IN  \E order \in Argsort(score) :
                      /\ sims' = sm
                      /\ top_idx' = SubSeq(order, 1, Min(Window(top_k), Len(order)))
                      /\ results' = Select(meta, cand_idx, score, order, top_k)
                      /\ outcome' = "returned"
                      /\ pc' = IF caller = "router" THEN "qa" ELSE AfterCall
    /\ UNCHANGED <<indexFile, kb_loaded, retrieverVars, caller, query, hmo, tier, top_k,
                   kcut, allowed_sources, trace, cand_idx, chat_calls, answer, build, kb, restVars>>

\* mutant: search puts self.meta in another order while it ranks
EmbedOkReordersMeta ==
    /\ pc = "embed"
    /\ attempts < MaxAttempts
    /\ attempts' = 0
    /\ IF X = NoneX
       THEN /\ outcome' = "raised"
            /\ pc' = AfterCall
            /\ UNCHANGED <<sims, top_idx, results, meta>>
       ELSE \E sm \in SimChoices(cand_idx) :
               LET score == Score(meta, cand_idx, sm, hmo, tier)
               IN  \E order \in Argsort(score) :
                      /\ sims' = sm
                      /\ top_idx' = SubSeq(order, 1, Min(Window(top_k), Len(order)))
                      /\ results' = Select(meta, cand_idx, score, order, top_k)
                      /\ meta' = [i \in 1..Len(meta) |-> meta[Len(meta) + 1 - i]]
                      /\ outcome' = "returned"
                      /\ pc' = IF caller = "router" THEN "qa" ELSE AfterCall
    /\ UNCHANGED <<indexFile, kb_loaded, X, embedder, caller, query, hmo, tier, top_k,
                   kcut, allowed_sources, trace, cand_idx, chat_calls, answer, build, kb, restVars>>

\* mutant: an index without rows is taken for an index that was not loaded
EmbedOkEmptyAsNone ==
    /\ pc = "embed"
    /\ attempts < MaxAttempts
    /\ attempts' = 0
    /\ IF X = NoneX \/ X = <<>>
       THEN /\ outcome' = "raised"
            /\ pc' = AfterCall
            /\ UNCHANGED <<sims, top_idx, results>>
       ELSE \E sm \in SimChoices(cand_idx) :
               LET score == Score(meta, cand_idx, sm, hmo, tier)
               IN  \E order \in Argsort(score) :
                      /\ sims' = sm
                      /\ top_idx' = SubSeq(order, 1, Min(Window(top_k), Len(order)))
                      /\ results' = Select(meta, cand_idx, score, order, top_k)
                      /\ outcome' = "returned"
                      /\ pc' = IF caller = "router" THEN "qa" ELSE AfterCall
    /\ UNCHANGED <<indexFile, kb_loaded, retrieverVars, caller, query, hmo, tier, top_k,
                   kcut, allowed_sources, trace, cand_idx, chat_calls, answer, build, kb, restVars>>

\* embed answers; search, lines 150-185
EmbedOk == EmbedReturns(SimChoices(cand_idx))

\* mutant: the chat model is called on an empty retrieval too
AnswerNoMatchChat ==
    /\ pc = "qa"
    /\ results = <<>>
    /\ chat_calls' = chat_calls + 1
    /\ answer' = Returned(LlmAnswer, <<>>)
    /\ pc' = AfterCall
    /\ UNCHANGED <<indexFile, kb_loaded, retrieverVars, callVars, build, kb, restVars>>

\* answer_question, lines 109-112: empty retrieval, canned answer
AnswerNoMatch ==
    /\ pc = "qa"
    /\ results = <<>>
    /\ answer' = Returned(NoMatchAnswer, <<>>)
    /\ pc' = AfterCall
    /\ UNCHANGED <<indexFile, kb_loaded, retrieverVars, callVars, chat_calls, build, kb, restVars>>

\* answer_question, lines 114-116: one call of chat.chat, which answers or raises
AnswerChat ==
    /\ pc = "qa"
    /\ results # <<>>
    /\ chat_calls' = chat_calls + 1
    /\ \E ok \in BOOLEAN :
          answer' = IF ok THEN Returned(LlmAnswer, results) ELSE Raised("chat")
    /\ pc' = AfterCall
    /\ UNCHANGED <<indexFile, kb_loaded, retrieverVars, callVars, build, kb, restVars>>

-----------------------------------------------------------------------------
(* ChatRouter.collect_user_info and validators.validate_profile *)

\* keep, line 75
Keep == {"first_name", "last_name", "id", "gender", "age", "hmo", "hmo_card", "tier"}

\* a dict over some of the fields; every value is a string, "" the empty one
Dict(f) == [kind |-> "object", fields |-> f]
EmptyDict == [k \in {} |-> ""]

\* is_valid_id: nine digits
NineDigits == {"123456789", "987654321"}
\* is_valid_age: an integer of 0..120
AgesInRange == {"34", "120"}
\* HMO_CANON and TIER_CANON after strip().lower(); the canonical name is the
\* one the index rows carry
HMO_CANON == [s \in {"maccabi", "Maccabi", "clalit"} |-> lower(s)]
TIER_CANON == [s \in {"gold", "Gold", "silver"} |-> lower(s)]

Has(p, k) == k \in DOMAIN p /\ p[k] # ""

\* validate_profile: the errors, and the profile with hmo and tier normalised
\* in place
validate_profile(p) ==
    LET errors ==
            {k \in {"id", "hmo_card"} : Has(p, k) /\ p[k] \notin NineDigits}
            \cup {k \in {"age"} : Has(p, k) /\ p[k] \notin AgesInRange}
            \cup {k \in {"hmo"} : Has(p, k) /\ p[k] \notin DOMAIN HMO_CANON}
            \cup {k \in {"tier"} : Has(p, k) /\ p[k] \notin DOMAIN TIER_CANON}
        normalised ==
            [k \in DOMAIN p |->
                IF k = "hmo" /\ Has(p, k) /\ p[k] \in DOMAIN HMO_CANON THEN HMO_CANON[p[k]]
                ELSE IF k = "tier" /\ Has(p, k) /\ p[k] \in DOMAIN TIER_CANON
                     THEN TIER_CANON[p[k]]
                ELSE p[k]]
    IN  [errors |-> errors, profile |-> normalised]

\* The `arguments` string of a tool call: text json.loads rejects, the text of
\* a JSON value that is no object, or the text of a JSON object
Garbage == [kind |-> "garbage", fields |-> EmptyDict]
NotAnObject == [kind |-> "array", fields |-> EmptyDict]
EmptyObject == Dict(EmptyDict)
FullArgs ==
    Dict([k \in Keep |->
            CASE k = "first_name" -> "Noa" [] k = "last_name" -> "Levi"
              [] k = "id" -> "123456789" [] k = "gender" -> "female"
              [] k = "age" -> "34" [] k = "hmo" -> "Maccabi"
              [] k = "hmo_card" -> "987654321" [] k = "tier" -> "Gold"])
\* an id of three digits, an unknown payer and an empty tier
BadArgs ==
    Dict([k \in {"id", "hmo", "tier"} |->
            CASE k = "id" -> "123" [] k = "hmo" -> "leumit" [] k = "tier" -> ""])
Arguments == {Garbage, NotAnObject, EmptyObject, FullArgs, BadArgs}

ToolCall(type, name, arguments) ==
    [type |-> type, name |-> name, arguments |-> arguments]
ToolCalls ==
    {ToolCall("function", "submit_profile", a) : a \in Arguments}
    \cup {ToolCall("function", "lookup", EmptyObject),
          ToolCall("custom", "submit_profile", FullArgs)}

\* choice.get("tool_calls") or []
ToolCallLists ==
    {<<>>} \cup {<<c>> : c \in ToolCalls} \cup {<<c, d>> : c \in ToolCalls, d \in ToolCalls}

\* choice.get("content") or ""
Contents == {"", " ", "Please confirm."}
\* str.strip
strip == [c \in Contents |-> IF c = " " THEN "" ELSE c]

Responses == [content : Contents, tool_calls : ToolCallLists]

\* the user_profile argument
UserProfiles ==
    {EmptyDict, [k \in {"first_name", "hmo"} |-> IF k = "hmo" THEN "clalit" ELSE "Dan"]}

ConfirmedMessage == "profile confirmed"

\* lines 75-78: the fields of args that hold a value replace those of profile
UpdateProfile(profile, args) ==
    [k \in DOMAIN profile \cup {a \in DOMAIN args : args[a] # ""} |->
        IF k \in DOMAIN args /\ args[k] # "" THEN args[k] ELSE profile[k]]

RECURSIVE ConsumeCalls(_, _, _)
\* lines 69-81: the loop over tool_calls; args.get on a value that is no dict
\* raises
ConsumeCalls(calls, profile, confirmed) ==
    IF calls = <<>> THEN [raised |-> FALSE, profile |-> profile, confirmed |-> confirmed]
    ELSE LET call == Head(calls)
         IN  IF call.type = "function" /\ call.name = "submit_profile"
             THEN IF call.arguments.kind = "array"
                  THEN [raised |-> TRUE, profile |-> profile, confirmed |-> confirmed]
                  ELSE ConsumeCalls(
                           Tail(calls),
                           validate_profile(
                               UpdateProfile(profile, call.arguments.fields)).profile,
                           TRUE)
             ELSE ConsumeCalls(Tail(calls), profile, confirmed)

NoResponse == [content |-> "", tool_calls |-> <<>>]
CollectRaised(user_profile, response, why) ==
    [kind |-> "raised", why |-> why, response |-> response, user_profile |-> user_profile,
     assistant_visible |-> "", profile |-> EmptyDict, profile_confirmed |-> FALSE]

\* collect_user_info, lines 62-91, for the response chat_api returned
CollectResult(user_profile, response) ==
    LET content == strip[response.content]
        consumed == ConsumeCalls(response.tool_calls, user_profile, FALSE)
    IN  IF consumed.raised THEN CollectRaised(user_profile, response, "AttributeError")
        ELSE [kind |-> "returned", why |-> "", response |-> response,
              user_profile |-> user_profile,
              assistant_visible |->
                  IF response.tool_calls # <<>> /\ content = ""
                  THEN ConfirmedMessage ELSE content,
              profile |-> consumed.profile,
              profile_confirmed |-> consumed.confirmed]

\* one call of collect_user_info: chat_api returns a response of `responses`
\* or raises once its retries are spent
CollectUserInfo(responses, profiles) ==
    /\ pc \in Resting
    /\ caller = "none"
    /\ caller' = "collect"
    /\ \E p \in profiles :
          \/ \E r \in responses : collect' = CollectResult(p, r)
          \/ collect' = CollectRaised(p, NoResponse, "chat")
    /\ UNCHANGED <<indexFile, kb_loaded, retrieverVars, pc, query, hmo, tier, top_k, kcut,
                   allowed_sources, trace, cand_idx, attempts, sims, top_idx, results, outcome,
                   routerVars, build, kb, env, boot_error, client, explode, ui>>

\* the responses of the serving process: text only, a submitted profile, a
\* submit_profile call without arguments
ServingResponses ==
    {[content |-> "Please confirm.", tool_calls |-> <<>>],
     [content |-> "", tool_calls |-> <<ToolCall("function", "submit_profile", FullArgs)>>],
     [content |-> "", tool_calls |-> <<ToolCall("function", "submit_profile", EmptyObject)>>]}

\* a collect_user_info call of the serving process
CollectCall == CollectUserInfo(ServingResponses, {EmptyDict})

-----------------------------------------------------------------------------
\* the call has ended and its caller has taken the result: the frame is gone
EndCall ==
    /\ pc \in Resting
    /\ caller # "none"
    /\ caller' = "none"
    /\ query' = NoQuery
    /\ hmo' = NoHint
    /\ tier' = NoHint
    /\ top_k' = 0
    /\ kcut' = 0
    /\ allowed_sources' = {}
    /\ trace' = NoTrace
    /\ cand_idx' = <<>>
    /\ attempts' = 0
    /\ sims' = <<>>
    /\ top_idx' = <<>>
    /\ results' = <<>>
    /\ outcome' = "none"
    /\ chat_calls' = 0
    /\ answer' = NoAnswer
    /\ collect' = NoCollect
    /\ UNCHANGED <<indexFile, kb_loaded, retrieverVars, pc, build, kb, env, boot_error, client, explode, ui>>

Next ==
    \/ Construct
    \/ BootOk
    \/ BootFail
    \/ SearchCall
    \/ AnswerNotLoaded
    \/ AnswerQuestion
    \/ EmbedFail
    \/ EmbedOk
    \/ AnswerNoMatch
    \/ AnswerChat
    \/ CollectCall
    \/ EndCall

Spec == Init /\ [][Next]_vars

\* collect_user_info alone, on a constructed router, for every response
CollectAny == CollectUserInfo(Responses, UserProfiles)

InitCollect ==
    /\ indexFile = Missing
    /\ kb_loaded = FALSE
    /\ meta = <<>>
    /\ X = NoneX
    /\ embedder = "none"
    /\ pc = "constructed"
    /\ caller = "none"
    /\ query = NoQuery
    /\ hmo = NoHint
    /\ tier = NoHint
    /\ top_k = 0
    /\ kcut = 0
    /\ allowed_sources = {}
    /\ trace = NoTrace
    /\ cand_idx = <<>>
    /\ attempts = 0
    /\ sims = <<>>
    /\ top_idx = <<>>
    /\ results = <<>>
    /\ outcome = "none"
    /\ chat_calls = 0
    /\ answer = NoAnswer
    /\ build = IdleBuild
    /\ kb = IdleKb
    /\ env \in {e \in Envs : e.chat}
    /\ boot_error = ""
    /\ collect = NoCollect
    /\ client = IdleClient
    /\ explode = IdleExplode
    /\ ui = IdleUi

NextCollect ==
    \/ CollectAny
    \/ EndCall

SpecCollect == InitCollect /\ [][NextCollect]_vars

-----------------------------------------------------------------------------
(* scripts/build_kb_index.py: main() *)

MaxBuildRows == 5         \* rows handed to a build
BATCH == 64               \* BATCH = 64
\* the batch sizes the build is exercised with: the program's 64 and a small
\* one, so that a list of MaxBuildRows rows takes several batches
BatchSizes == {2, BATCH}

BuildRowUniverse ==
    {MkRow("cleaning", "maccabi", "gold", Dentel),
     MkRow("lenses", "clalit", "silver", Optometry)}
BuildInputs == SeqsUpTo(BuildRowUniverse, MaxBuildRows)
\* an artifact left by an earlier build
OldRows == <<MkRow("lenses", "maccabi", "gold", Optometry)>>
OldIndex == BuiltIndex(OldRows)

RECURSIVE Flatten(_)
\* np.vstack(X_list)
Flatten(ss) == IF ss = <<>> THEN <<>> ELSE Head(ss) \o Flatten(Tail(ss))

\* the rows of the batch that starts after `i` rows: rows[i:i+BATCH]
BatchAt(rows, i, size) == SubSeq(rows, i + 1, Min(i + size, Len(rows)))

\* the frame of main() once load_kb has returned and the embedder exists
BuildFrame(rows, size) ==
    [pc |-> IF rows = <<>> THEN "save" ELSE "embed",
     rows |-> rows, batch_size |-> size, i |-> 0, attempts |-> 0,
     X_list |-> <<>>, meta |-> <<>>]

ServingAtRest ==
    /\ kb_loaded = FALSE
    /\ meta = <<>>
    /\ X = NoneX
    /\ embedder = "none"
    /\ pc = "constructed"
    /\ caller = "none"
    /\ query = NoQuery
    /\ hmo = NoHint
    /\ tier = NoHint
    /\ top_k = 0
    /\ kcut = 0
    /\ allowed_sources = {}
    /\ trace = NoTrace
    /\ cand_idx = <<>>
    /\ attempts = 0
    /\ sims = <<>>
    /\ top_idx = <<>>
    /\ results = <<>>
    /\ outcome = "none"
    /\ chat_calls = 0
    /\ answer = NoAnswer
    /\ env = [chat |-> TRUE, embeddings |-> TRUE]
    /\ boot_error = ""
    /\ collect = NoCollect

\* main(), lines 15-26, has run: the rows are parsed, nothing is embedded yet
InitBuild ==
    /\ indexFile \in {Missing, OldIndex}
    /\ \E rows \in BuildInputs, size \in BatchSizes : build = BuildFrame(rows, size)
    /\ kb = IdleKb
    /\ client = IdleClient
    /\ explode = IdleExplode
    /\ ui = IdleUi
    /\ ServingAtRest

\* mutant: a batch whose embedding failed for good is skipped and main() saves
BuildEmbedFailSkips ==
    /\ build.pc = "embed"
    /\ build.attempts < MaxAttempts
    /\ build' = IF build.attempts + 1 = MaxAttempts
                THEN [build EXCEPT !.pc = "save", !.attempts = 0]
                ELSE [build EXCEPT !.attempts = @ + 1]
    /\ UNCHANGED <<indexFile, kb_loaded, retrieverVars, pc, callVars, routerVars, kb, restVars>>

\* line 30: one request of embedder.embed(texts) fails; after the third the
\* exception leaves main()
BuildEmbedFail ==
    /\ build.pc = "embed"
    /\ build.attempts < MaxAttempts
    /\ build' = IF build.attempts + 1 = MaxAttempts
                THEN [build EXCEPT !.pc = "failed", !.attempts = @ + 1]
                ELSE [build EXCEPT !.attempts = @ + 1]
    /\ UNCHANGED <<indexFile, kb_loaded, retrieverVars, pc, callVars, routerVars, kb, restVars>>

\* mutant: the batch vectors are put in front of X_list
BuildEmbedOkPrepend ==
    /\ build.pc = "embed"
    /\ build.attempts < MaxAttempts
    /\ LET batch == BatchAt(build.rows, build.i, build.batch_size)
           vecs == [n \in 1..Len(batch) |-> Embed(make_chunk_text(batch[n]))]
           next == build.i + build.batch_size
       IN  build' = [build EXCEPT
                        !.X_list = <<vecs>> \o @,
                        !.meta = @ \o [n \in 1..Len(batch) |-> MetaRecord(batch[n])],
                        !.i = next,
                        !.attempts = 0,
                        !.pc = IF next >= Len(build.rows) THEN "save" ELSE "embed"]
    /\ UNCHANGED <<indexFile, kb_loaded, retrieverVars, pc, callVars, routerVars, kb, restVars>>

\* lines 28-40: the embedding service answers with one vector per text, in
\* order; the batch is appended to X_list and to meta
BuildEmbedOk ==
    /\ build.pc = "embed"
    /\ build.attempts < MaxAttempts
    /\ LET batch == BatchAt(build.rows, build.i, build.batch_size)
           vecs == [n \in 1..Len(batch) |-> Embed(make_chunk_text(batch[n]))]
           next == build.i + build.batch_size
       IN  build' = [build EXCEPT
                        !.X_list = Append(@, vecs),
                        !.meta = @ \o [n \in 1..Len(batch) |-> MetaRecord(batch[n])],
                        !.i = next,
                        !.attempts = 0,
                        !.pc = IF next >= Len(build.rows) THEN "save" ELSE "embed"]
    /\ UNCHANGED <<indexFile, kb_loaded, retrieverVars, pc, callVars, routerVars, kb, restVars>>

\* lines 41-43: the artifact is written
BuildSave ==
    /\ build.pc = "save"
    /\ indexFile' = [exists |-> TRUE, X |-> Flatten(build.X_list), meta |-> build.meta]
    /\ build' = [build EXCEPT !.pc = "done"]
    /\ UNCHANGED <<kb_loaded, retrieverVars, pc, callVars, routerVars, kb, restVars>>

\* the build, and a serving process that boots on whatever is at the index path
NextBuild ==
    \/ BuildEmbedFail
    \/ BuildEmbedOk
    \/ BuildSave
    \/ BootOk
    \/ BootFail

SpecBuild == InitBuild /\ [][NextBuild]_vars

-----------------------------------------------------------------------------
(* search on an index that holds more rows than the window of the ranking *)

MaxRankRows == 11         \* rows of the largest index that is ranked

\* three rows of distinct (service, payer, tier)
RankKinds ==
    <<MkRow("cleaning", "maccabi", "gold", Dentel),
      MkRow("lenses", "maccabi", "gold", Optometry),
      MkRow("cleaning", "clalit", "silver", Dentel)>>
\* the i-th row of a knowledge base: of kind k, with a benefit text of its own
RankRow(k, i) == [RankKinds[k] EXCEPT !.text = ToString(i)]
\* n rows: a of the first kind, then b of the second, the rest of the third
RankRows(n, a, b) ==
    [i \in 1..n |-> RankRow(IF i <= a THEN 1 ELSE IF i <= a + b THEN 2 ELSE 3, i)]
RankInputs ==
    UNION {UNION {{RankRows(n, a, b) : b \in 0..(n - a)} : a \in 0..n} :
              n \in WindowMin..MaxRankRows}

RankQueries ==
    {q \in Queries : q.wratio = (IF q.keys = {} THEN Flat ELSE NearCleaning)}
RankTopKs == {1, 2, 3, 6}

\* The similarities the candidates are ranked with, in a unit small enough
\* for each to be a cosine: rising and falling with the position, of both
\* signs, equal in pairs, and alternating high and low.
RankSims(cand) ==
    LET n == Len(cand)
    IN  {sm \in {[i \in 1..n |-> i],
                  [i \in 1..n |-> n + 1 - i],
                  [i \in 1..n |-> i - (n \div 2)],
                  [i \in 1..n |-> (i + 1) \div 2],
                  [i \in 1..n |-> IF i % 2 = 1 THEN n + i ELSE i]} :
            \A i, j \in 1..n : X[cand[i]] = X[cand[j]] => sm[i] = sm[j]}

\* the serving process before startup, beside a built index
InitRank ==
    /\ indexFile \in {BuiltIndex(rows) : rows \in RankInputs}
    /\ build = IdleBuild
    /\ kb = IdleKb
    /\ client = IdleClient
    /\ explode = IdleExplode
    /\ ui = IdleUi
    /\ ServingAtRest

RankSearch == SearchWith(RankQueries, RankTopKs, {PrefilterK})
RankEmbedOk == EmbedReturns(RankSims(cand_idx))

NextRank ==
    \/ BootOk
    \/ RankSearch
    \/ RankEmbedOk
    \/ EndCall

SpecRank == InitRank /\ [][NextRank]_vars

-----------------------------------------------------------------------------
(* AzureOpenAIClient.chat / chat_api and AzureEmbeddingClient.embed *)

\* the methods application code calls, each decorated with
\* @retry(stop=stop_after_attempt(3))
ClientMethods == {"embed", "chat", "chat_api"}
\* the ways one HTTP request fails: raise_for_status, or no response
RequestFailures == {"status", "timeout"}

\* the frame of one call: `outer` counts the failed attempts of chat, `inner`
\* those of the method that posts (embed, chat_api, or the chat_api that chat
\* calls); `log` holds the outcome of every HTTP request made
ClientFrame(fn) ==
    [pc |-> "request", fn |-> fn, outer |-> 0, inner |-> 0, log |-> <<>>]

InitClient ==
    /\ \E fn \in ClientMethods : client = ClientFrame(fn)
    /\ indexFile = Missing
    /\ build = IdleBuild
    /\ kb = IdleKb
    /\ explode = IdleExplode
    /\ ui = IdleUi
    /\ ServingAtRest

\* an attempt of chat has failed: tenacity calls chat again, or gives up
ChatAttemptFailed(frame) ==
    IF frame.outer + 1 = MaxAttempts
    THEN [frame EXCEPT !.outer = @ + 1, !.pc = "raised"]
    ELSE [frame EXCEPT !.outer = @ + 1, !.inner = 0]

\* client.post fails or raise_for_status raises: tenacity retries the method
\* that posts; after its third attempt the error leaves that method, and
\* inside chat it fails the attempt of chat
RequestFails ==
    /\ client.pc = "request"
    /\ \E why \in RequestFailures :
          LET posted == [client EXCEPT !.log = Append(@, why), !.inner = @ + 1]
          IN  client' = IF posted.inner < MaxAttempts THEN posted
                        ELSE IF client.fn = "chat" THEN ChatAttemptFailed(posted)
                        ELSE [posted EXCEPT !.pc = "raised"]
    /\ UNCHANGED <<indexFile, kb_loaded, retrieverVars, pc, callVars, routerVars, build, kb,
                   env, boot_error, collect, explode, ui>>

\* the request is answered with a body the method can read
RequestAnswered ==
    /\ client.pc = "request"
    /\ client' = [client EXCEPT !.log = Append(@, "ok"), !.pc = "returned"]
    /\ UNCHANGED <<indexFile, kb_loaded, retrieverVars, pc, callVars, routerVars, build, kb,
                   env, boot_error, collect, explode, ui>>

\* chat, line 26: chat_api returned JSON without choices[0].message; the
\* KeyError fails the attempt of chat
ChatBodyFails ==
    /\ client.pc = "request"
    /\ client.fn = "chat"
    /\ client' = ChatAttemptFailed([client EXCEPT !.log = Append(@, "no_choices")])
    /\ UNCHANGED <<indexFile, kb_loaded, retrieverVars, pc, callVars, routerVars, build, kb,
                   env, boot_error, collect, explode, ui>>

NextClient ==
    \/ RequestFails
    \/ RequestAnswered
    \/ ChatBodyFails

SpecClient == InitClient /\ [][NextClient]_vars

-----------------------------------------------------------------------------
(* The extractor: services/knowledge_base.py *)

MaxTrs == 2               \* data rows of a table
MaxEls == 2               \* elements of a document without tables
MaxFiles == 2             \* files of a directory that holds several

\* A text is the tuple of its tokens: words, tier labels, payer names, ":" and
\* whitespace characters.  A tier or payer alias stands for both spellings of
\* the name; "Gold" and "Maccabi" are the same aliases in another case.
Whitespace == {" ", "\n"}
Colon == ":"

\* _HMO_CANON_BY_TOKEN, in the order the dict is iterated
HmoCanonByToken == <<[tok |-> "maccabi", canon |-> "maccabi"],
                     [tok |-> "clalit", canon |-> "clalit"]>>

\* _TIER_CANON_BY_TOKEN
TierCanonByToken == [tok \in Tiers |-> tok]

RECURSIVE LStrip(_)
LStrip(s) == IF s = <<>> \/ Head(s) \notin Whitespace THEN s ELSE LStrip(Tail(s))

RECURSIVE RStrip(_)
RStrip(s) ==
    IF s = <<>> \/ s[Len(s)] \notin Whitespace THEN s
    ELSE RStrip(SubSeq(s, 1, Len(s) - 1))

RECURSIVE CollapseSpaces(_)
\* re.sub(r"\s+", " ", s)
CollapseSpaces(s) ==
    IF s = <<>> THEN <<>>
    ELSE IF Head(s) \in Whitespace THEN <<" ">> \o CollapseSpaces(LStrip(s))
    ELSE <<Head(s)>> \o CollapseSpaces(Tail(s))

\* _clean_text
clean_text(s) == CollapseSpaces(RStrip(LStrip(s)))

\* _canon_hmo_from_text; None is NoHint
canon_hmo_from_text(s) ==
    LET low == {lower(s[i]) : i \in 1..Len(s)}
        hits == {n \in 1..Len(HmoCanonByToken) : HmoCanonByToken[n].tok \in low}
    IN  IF hits = {} THEN NoHint
        ELSE HmoCanonByToken[CHOOSE n \in hits : \A o \in hits : n <= o].canon

RECURSIVE SkipSpaces(_, _)
\* the first position from j on that holds no whitespace
SkipSpaces(text, j) ==
    IF j <= Len(text) /\ text[j] \in Whitespace THEN SkipSpaces(text, j + 1) ELSE j

\* the pattern (label)\s*:\s* matches at position i
LabelAt(text, i) ==
    /\ lower(text[i]) \in DOMAIN TierCanonByToken
    /\ LET j == SkipSpaces(text, i + 1)
       IN  j <= Len(text) /\ text[j] = Colon

\* m.end() of the match at i, as the position of the first token after it
MatchEnd(text, i) == SkipSpaces(text, SkipSpaces(text, i + 1) + 1)

\* list(pat.finditer(text)), as the positions of the labels
TierMatches(text) == ListOfSet({i \in 1..Len(text) : LabelAt(text, i)})

HasText(c) == c.text # <<>>

RECURSIVE UniqFrom(_, _)
UniqFrom(s, acc) ==
    IF s = <<>> THEN acc
    ELSE UniqFrom(Tail(s),
                  IF \E i \in 1..Len(acc) : acc[i] = Head(s) THEN acc
                  ELSE Append(acc, Head(s)))

\* the first occurrence of every element, in order; the key is every field
Uniq(s) == UniqFrom(s, <<>>)

\* mutant: the segments are returned as they were collected, repeats included
explode_tiers_keeps_repeats(text) ==
    IF text = <<>> THEN <<>>
    ELSE LET matches == TierMatches(text)
             whole == <<[tier |-> NoHint, text |-> clean_text(text)]>>
             Chunk(n) ==
                 LET start == MatchEnd(text, matches[n])
                     end == IF n < Len(matches) THEN matches[n + 1] - 1 ELSE Len(text)
                 IN  [tier |-> TierCanonByToken[lower(text[matches[n]])],
                      text |-> clean_text(SubSeq(text, start, end))]
             chunks == SelectSeq([n \in 1..Len(matches) |-> Chunk(n)], HasText)
         IN  IF matches = <<>> THEN whole
             ELSE IF chunks # <<>> THEN chunks ELSE whole

\* _explode_tiers
explode_tiers(text) ==
    IF text = <<>> THEN <<>>
    ELSE LET matches == TierMatches(text)
             whole == <<[tier |-> NoHint, text |-> clean_text(text)]>>
             Chunk(n) ==
                 LET start == MatchEnd(text, matches[n])
                     end == IF n < Len(matches) THEN matches[n + 1] - 1 ELSE Len(text)
                 IN  [tier |-> TierCanonByToken[lower(text[matches[n]])],
                      text |-> clean_text(SubSeq(text, start, end))]
             chunks == SelectSeq([n \in 1..Len(matches) |-> Chunk(n)], HasText)
             uniq == Uniq(chunks)
         IN  IF matches = <<>> THEN whole
             ELSE IF uniq # <<>> THEN uniq ELSE whole

RECURSIVE JoinTexts(_)
\* " ".join(texts), get_text(" ")
JoinTexts(texts) ==
    IF texts = <<>> THEN <<>>
    ELSE IF Len(texts) = 1 THEN texts[1]
    ELSE texts[1] \o <<" ">> \o JoinTexts(Tail(texts))

RECURSIVE Reverse(_)
Reverse(s) == IF s = <<>> THEN <<>> ELSE Append(Reverse(Tail(s)), Head(s))

\* A document is a title and a body of nodes.  A table node has the texts of
\* the th cells of its first row (none: a table without a header row) and its
\* rows of td texts; any other node is an element with a tag name and a text.
IsTable(node) == node.kind = "table"
Tables(doc) == {k \in 1..Len(doc.body) : IsTable(doc.body[k])}

TableText(t) ==
    JoinTexts(t.header \o [r \in 1..Len(t.trs) |-> JoinTexts(t.trs[r])])

NodeText(node) == IF IsTable(node) THEN TableText(node) ELSE node.text

RECURSIVE FirstHmo(_)
FirstHmo(texts) ==
    IF texts = <<>> THEN NoHint
    ELSE IF canon_hmo_from_text(clean_text(Head(texts))) # NoHint
         THEN canon_hmo_from_text(clean_text(Head(texts)))
    ELSE FirstHmo(Tail(texts))

\* _nearest_hmo_heading(tr) for row r of the table at body position k: the
\* rows before it, nearest first; the table; the nodes before the table,
\* nearest first; the body; the head; the whole document
nearest_hmo_heading(doc, k, r) ==
    LET t == doc.body[k]
        headerTr == IF t.header = <<>> THEN <<>> ELSE <<JoinTexts(t.header)>>
        trsBefore == headerTr \o [n \in 1..(r - 1) |-> JoinTexts(t.trs[n])]
        nodesBefore == [n \in 1..(k - 1) |-> NodeText(doc.body[n])]
        bodyText == JoinTexts([n \in 1..Len(doc.body) |-> NodeText(doc.body[n])])
    IN  FirstHmo(Reverse(trsBefore) \o <<TableText(t)>> \o Reverse(nodesBefore)
                 \o <<bodyText, doc.title, JoinTexts(<<doc.title, bodyText>>)>>)

Clinic == "my_clinic.html"
Notes == "notes.txt"
\* the names "*.html" matches
HtmlNames == {Dentel, Optometry, Clinic}
FileNames == HtmlNames \cup {Notes}
\* p.stem
Stem == [n \in {Clinic} |-> <<"my", "_", "clinic">>]

\* _category_from_file
category_from_file(name, doc) ==
    IF name \in DOMAIN FileCategoryMap THEN <<FileCategoryMap[name]>>
    ELSE clean_text(IF doc.title # <<>> THEN doc.title
                    ELSE [i \in 1..Len(Stem[name]) |->
                             IF Stem[name][i] = "_" THEN " " ELSE Stem[name][i]])

\* lines 146-151: the columns whose header names a payer (column 1 is the
\* service name)
ColHmo(header) ==
    IF Len(header) >= 2
    THEN {j \in 2..Len(header) : canon_hmo_from_text(clean_text(header[j])) # NoHint}
    ELSE {}

KbRow(category, service, h, part, name) ==
    [category |-> category, service |-> service, hmo |-> h,
     tier |-> part.tier, text |-> part.text, source |-> name]

\* lines 160-199: the rows of one tr
TrRows(doc, name, category, k, r) ==
    LET t == doc.body[k]
        tds == t.trs[r]
        col_hmo == ColHmo(t.header)
        service == IF clean_text(tds[1]) # <<>> THEN clean_text(tds[1]) ELSE category
        CellRows(j) ==
            LET body == clean_text(tds[j])
                h == IF j \in col_hmo
                     THEN canon_hmo_from_text(clean_text(t.header[j])) ELSE NoHint
                parts == explode_tiers(body)
            IN  IF body = <<>> THEN <<>>
                ELSE [n \in 1..Len(parts) |-> KbRow(category, service, h, parts[n], name)]
        body == IF Len(tds) > 1 THEN clean_text(JoinTexts(Tail(tds))) ELSE <<>>
        row_hmo == IF canon_hmo_from_text(body) # NoHint THEN canon_hmo_from_text(body)
                   ELSE nearest_hmo_heading(doc, k, r)
        parts == explode_tiers(body)
    IN  IF tds = <<>> THEN <<>>
        ELSE IF col_hmo # {}
             THEN Flatten([j \in 1..(Len(tds) - 1) |-> CellRows(j + 1)])
        ELSE [n \in 1..Len(parts) |-> KbRow(category, service, row_hmo, parts[n], name)]

\* lines 138-199: the rows of every table, in document order
TableRows(doc, name, category) ==
    LET ks == ListOfSet(Tables(doc))
        OfTable(k) == Flatten([r \in 1..Len(doc.body[k].trs) |->
                                  TrRows(doc, name, category, k, r)])
    IN  Flatten([n \in 1..Len(ks) |-> OfTable(ks[n])])

FirstColon(txt) == CHOOSE i \in 1..Len(txt) :
                      txt[i] = Colon /\ \A j \in 1..(i - 1) : txt[j] # Colon

RECURSIVE FallbackRows(_, _, _, _)
\* lines 203-223: the scan of a document without tables
FallbackRows(els, current_hmo, category, name) ==
    IF els = <<>> THEN <<>>
    ELSE LET el == Head(els)
             txt == clean_text(el.text)
             h == canon_hmo_from_text(txt)
             hasColon == \E i \in 1..Len(txt) : txt[i] = Colon
             svc == IF hasColon THEN SubSeq(txt, 1, FirstColon(txt) - 1) ELSE category
             det == IF hasColon THEN SubSeq(txt, FirstColon(txt) + 1, Len(txt)) ELSE txt
             parts == explode_tiers(det)
         IN  IF h # NoHint THEN FallbackRows(Tail(els), h, category, name)
             ELSE IF el.name \in {"p", "li"} /\ txt # <<>>
                  THEN [n \in 1..Len(parts) |->
                           KbRow(category, clean_text(svc), current_hmo, parts[n], name)]
                       \o FallbackRows(Tail(els), current_hmo, category, name)
             ELSE FallbackRows(Tail(els), current_hmo, category, name)

\* lines 132-223: `rows` before the deduplication
RawRows(name, doc) ==
    LET category == category_from_file(name, doc)
    IN  IF Tables(doc) # {} THEN TableRows(doc, name, category)
        ELSE FallbackRows(doc.body, NoHint, category, name)

\* mutant: every row with a text is returned, repeated or not
parse_html_file_keeps_repeats(name, doc) == SelectSeq(RawRows(name, doc), HasText)

\* parse_html_file: lines 226-231 keep, for every six-field key of a row with
\* a text, one row, in the order of the first occurrences
parse_html_file(name, doc) == Uniq(SelectSeq(RawRows(name, doc), HasText))

\* Cell texts
Svc == <<"cleaning">>
Plain == <<" ", "free", "\n", " ">>
Tiered == <<"Gold", " ", ":", "free", " ", "silver", ":", " ", "half">>
Repeated == <<"gold", ":", "free", " ", "Gold", ":", " ", "free">>
LabelOnly == <<"gold", ":">>
Blank == <<" ">>
WithPayer == <<"Maccabi", " ", "free">>
Lead == <<"free", " ", "gold", ":", "half">>

\* the td texts of a table row
TdRows ==
    {<<Svc, Tiered, Plain>>, <<Svc, Repeated, Blank>>, <<Blank, Plain>>, <<Svc>>,
     <<>>, <<Svc, LabelOnly, WithPayer>>, <<Svc, Lead>>}

\* no header row; a payer column and a column of another name; no payer column
Headers ==
    {<<>>, <<<<"service">>, <<"Maccabi">>, <<"details">>>>,
     <<<<"service">>, <<"details">>>>}

TableNodes == [kind : {"table"}, header : Headers, trs : SeqsUpTo(TdRows, MaxTrs)]

El(name, text) == [kind |-> "el", name |-> name, text |-> text]

Elements ==
    {El("h2", <<"Maccabi">>), El("h2", <<"services">>),
     El("p", <<"cleaning", ":", " ", "gold", ":", "free", " ", "silver", ":", "half">>),
     El("p", Plain), El("p", <<"clalit", " ", "free">>),
     El("li", <<"cleaning", ":">>), El("li", Blank)}

Titles == {<<>>, <<"clalit", "\n", "clinic">>}

\* one table, alone or under a heading; the same table twice; no table
Bodies ==
    {<<t>> : t \in TableNodes}
    \cup {<<El("h2", <<"clalit">>), t>> : t \in TableNodes}
    \cup {<<t, t>> : t \in TableNodes}
    \cup SeqsUpTo(Elements, MaxEls)

Documents == [title : Titles, body : Bodies]

\* the documents of a directory that holds several files: a table with payer
\* columns and one without, each with a repeated row; a repeated paragraph
SharedDocuments ==
    {[title |-> <<>>,
      body |-> <<[kind |-> "table", header |-> <<<<"service">>, <<"Maccabi">>>>,
                  trs |-> <<<<Svc, Tiered>>, <<Svc, Tiered>>>>],
                 [kind |-> "table", header |-> <<>>,
                  trs |-> <<<<Svc, WithPayer>>, <<Svc, WithPayer>>>>]>>],
     [title |-> <<>>,
      body |-> <<El("h2", <<"Maccabi">>), El("p", Plain), El("p", Plain)>>]}

\* A directory: the document of every file name in it, or no directory
NoDirectory == [exists |-> FALSE, files |-> [n \in {} |-> <<>>]]

Directories ==
    {NoDirectory}
    \cup {[exists |-> TRUE, files |-> f] :
            f \in UNION {[S -> Documents] :
                           S \in {T \in SUBSET FileNames : Cardinality(T) <= 1}}}
    \cup {[exists |-> TRUE, files |-> f] :
            f \in UNION {[S -> SharedDocuments] :
                           S \in {T \in SUBSET FileNames :
                                     Cardinality(T) \in 2..MaxFiles}}}

\* load_kb is called
InitKB ==
    /\ \E d \in Directories :
          kb = [pc |-> "start", dir |-> d, todo |-> {}, out |-> <<>>,
                parsed |-> <<>>, raw |-> <<>>]
    /\ indexFile = Missing
    /\ build = IdleBuild
    /\ client = IdleClient
    /\ explode = IdleExplode
    /\ ui = IdleUi
    /\ ServingAtRest

\* line 236: assert dirp.exists()
KbDirMissing ==
    /\ kb.pc = "start"
    /\ ~kb.dir.exists
    /\ kb' = [kb EXCEPT !.pc = "failed"]
    /\ UNCHANGED <<indexFile, kb_loaded, retrieverVars, pc, callVars, routerVars, build, restVars>>

\* line 238: dirp.glob("*.html")
KbGlob ==
    /\ kb.pc = "start"
    /\ kb.dir.exists
    /\ kb' = [kb EXCEPT !.pc = "loop", !.todo = DOMAIN kb.dir.files \cap HtmlNames]
    /\ UNCHANGED <<indexFile, kb_loaded, retrieverVars, pc, callVars, routerVars, build, restVars>>

\* line 239: out.extend(parse_html_file(f)) for the next file, in the order
\* the file system lists them
KbParseFile ==
    /\ kb.pc = "loop"
    /\ \E name \in kb.todo :
          kb' = [kb EXCEPT
                    !.todo = @ \ {name},
                    !.out = @ \o parse_html_file(name, kb.dir.files[name]),
                    !.parsed = Append(@, name),
                    !.raw = Append(@, RawRows(name, kb.dir.files[name]))]
    /\ UNCHANGED <<indexFile, kb_loaded, retrieverVars, pc, callVars, routerVars, build, restVars>>

\* line 240: return out
KbReturn ==
    /\ kb.pc = "loop"
    /\ kb.todo = {}
    /\ kb' = [kb EXCEPT !.pc = "done"]
    /\ UNCHANGED <<indexFile, kb_loaded, retrieverVars, pc, callVars, routerVars, build, restVars>>

NextKB ==
    \/ KbDirMissing
    \/ KbGlob
    \/ KbParseFile
    \/ KbReturn

SpecKB == InitKB /\ [][NextKB]_vars

-----------------------------------------------------------------------------
(* _explode_tiers alone, on every text of a few tokens *)

MaxTextLen == 6           \* tokens of a text handed to _explode_tiers

TextTokens == {"gold", "Gold", "silver", Colon, " ", "free"}
CellTexts == SeqsUpTo(TextTokens, MaxTextLen)

ExplodeFrame(text) == [pc |-> "called", text |-> text, parts |-> <<>>]

InitExplode ==
    /\ explode \in {ExplodeFrame(text) : text \in CellTexts}
    /\ indexFile = Missing
    /\ build = IdleBuild
    /\ kb = IdleKb
    /\ client = IdleClient
    /\ ui = IdleUi
    /\ ServingAtRest

\* _explode_tiers(text) returns
ExplodeTiers ==
    /\ explode.pc = "called"
    /\ explode' = [explode EXCEPT !.pc = "returned", !.parts = explode_tiers(explode.text)]
    /\ UNCHANGED <<indexFile, kb_loaded, retrieverVars, pc, callVars, routerVars, build, kb,
                   env, boot_error, collect, client, ui>>

NextExplode == ExplodeTiers

SpecExplode == InitExplode /\ [][NextExplode]_vars

-----------------------------------------------------------------------------
(* The frontend: frontend.py, one browser session against the API of app.py *)

MaxPrompts == 3           \* prompts sent in one browser session

Greeting == "greeting"
CollectFailedReply == "could not process the message"
QaFailedReply == "could not answer"
NetworkReply == "communication problem"
NoRequest == [called |-> <<>>, how |-> "none", confirmed |-> FALSE]

\* what requests.post returned or raised, as the frontend reads it: a 2xx
\* response with its JSON, another status, or an exception
HttpOk(message, profile, confirmed, snippets) ==
    [how |-> "ok", message |-> message, updated_profile |-> profile,
     profile_confirmed |-> confirmed, used_snippets |-> snippets]
HttpFailed(how) ==
    [how |-> how, message |-> "", updated_profile |-> EmptyDict,
     profile_confirmed |-> FALSE, used_snippets |-> <<>>]

\* app.py, collect_user_info: the CollectResponse of a call that returned,
\* status 500 for one that raised
CollectEndpoint(c) ==
    IF c.kind = "returned"
    THEN HttpOk(c.assistant_visible, c.profile, c.profile_confirmed, <<>>)
    ELSE HttpFailed("status")

\* the chat responses behind the collect endpoint: at most one tool call
UiResponses == {r \in Responses : Len(r.tool_calls) <= 1 /\ r.content # " "}

HttpCollect(profile) ==
    {CollectEndpoint(CollectResult(profile, r)) : r \in UiResponses}
    \cup {CollectEndpoint(CollectRaised(profile, NoResponse, "chat")), HttpFailed("exception")}

\* app.py, qa: a QAResponse, without or with snippets, or status 400 / 500
HttpQa ==
    {HttpOk(NoMatchAnswer, EmptyDict, FALSE, <<>>),
     HttpOk(LlmAnswer, EmptyDict, FALSE, <<"snippet">>),
     HttpFailed("status"), HttpFailed("exception")}

\* the browser session is opened: the script has not run yet
InitUi ==
    /\ ui = [pc |-> "start"]
    /\ indexFile = Missing
    /\ build = IdleBuild
    /\ kb = IdleKb
    /\ client = IdleClient
    /\ explode = IdleExplode
    /\ ServingAtRest

\* lines 288-294: the greeting, once per conversation
Greet(session) ==
    IF ~session.greeted /\ session.messages = <<>>
    THEN [session EXCEPT !.messages = <<Greeting>>, !.greeted = TRUE]
    ELSE session

\* the first run of the script: lines 171-185, then the greeting
UiFirstRun ==
    /\ ui.pc = "start"
    /\ ui' = Greet([pc |-> "idle", phase |-> "collect", messages |-> <<>>,
                    profile |-> EmptyDict, used_snippets |-> <<>>, greeted |-> FALSE,
                    prompts |-> 0, last |-> NoRequest])
    /\ UNCHANGED <<indexFile, kb_loaded, retrieverVars, pc, callVars, routerVars, build, kb,
                   env, boot_error, collect, client, explode>>

\* the "new chat" button: new_conversation(), then st.rerun()
UiNewConversation ==
    /\ ui.pc = "idle"
    /\ ui' = [ui EXCEPT !.pc = "rerun", !.messages = <<>>, !.profile = EmptyDict,
                        !.used_snippets = <<>>, !.phase = "collect", !.greeted = FALSE]
    /\ UNCHANGED <<indexFile, kb_loaded, retrieverVars, pc, callVars, routerVars, build, kb,
                   env, boot_error, collect, client, explode>>

\* the run of the script that st.rerun() asked for
UiRerun ==
    /\ ui.pc = "rerun"
    /\ ui' = Greet([ui EXCEPT !.pc = "idle"])
    /\ UNCHANGED <<indexFile, kb_loaded, retrieverVars, pc, callVars, routerVars, build, kb,
                   env, boot_error, collect, client, explode>>

\* mutant: every answered collect request ends the collection
PhaseAfterAnyOk(phase, o) == IF o.how = "ok" THEN "qa" ELSE phase

\* lines 325-326
PhaseAfter(phase, o) == IF o.how = "ok" /\ o.profile_confirmed THEN "qa" ELSE phase

\* lines 320-343 for the outcome o of the request to `endpoint`
Handled(session, endpoint, o) ==
    LET reply == IF o.how = "ok" THEN o.message
                 ELSE IF o.how = "exception" THEN NetworkReply
                 ELSE IF endpoint = "collect" THEN CollectFailedReply ELSE QaFailedReply
    IN  [session EXCEPT
            !.messages = @ \o <<"prompt", reply>>,
            !.profile = IF endpoint = "collect" /\ o.how = "ok"
                           /\ o.updated_profile # EmptyDict
                        THEN o.updated_profile ELSE @,
            !.phase = IF endpoint = "collect" THEN PhaseAfter(@, o) ELSE @,
            !.used_snippets = IF endpoint = "qa" /\ o.how = "ok" THEN o.used_snippets ELSE @,
            !.prompts = @ + 1,
            !.last = [called |-> <<endpoint>>, how |-> o.how,
                      confirmed |-> o.profile_confirmed]]

\* a prompt is entered: lines 303-347
UiPrompt ==
    /\ ui.pc = "idle"
    /\ ui.prompts < MaxPrompts
    /\ IF ui.phase = "collect"
       THEN \E o \in HttpCollect(ui.profile) : ui' = Handled(ui, "collect", o)
       ELSE \E o \in HttpQa : ui' = Handled(ui, "qa", o)
    /\ UNCHANGED <<indexFile, kb_loaded, retrieverVars, pc, callVars, routerVars, build, kb,
                   env, boot_error, collect, client, explode>>

NextUi ==
    \/ UiFirstRun
    \/ UiNewConversation
    \/ UiRerun
    \/ UiPrompt

SpecUi == InitUi /\ [][NextUi]_vars

-----------------------------------------------------------------------------
(* Properties of search *)

Searched == caller # "none" /\ outcome = "returned"
BothHints == hmo # NoHint /\ tier # NoHint
IsExact(r) == r.hmo = hmo /\ r.tier = tier
ExactRows == {i \in 1..Len(meta) : IsExact(meta[i])}
\* the rows of the documents the query's keywords map to
FromAllowed == {i \in 1..Len(meta) : meta[i].source \in allowed_sources}
\* the rows the query can draw on: those of the mapped documents, or every
\* row when the query has no gating keyword or no row comes from them
Eligible == IF FromAllowed # {} THEN FromAllowed ELSE 1..Len(meta)
HasExactResult == \E n \in 1..Len(results) : IsExact(results[n])

\* C1 as stated: whenever some row of the knowledge base has exactly the hinted
\* payer and tier, a search with both hints returns a result with that payer
\* and tier, whatever the query's gating keywords.
C1_ExactMatchReturned ==
    (Searched /\ BothHints /\ top_k >= 1 /\ ExactRows # {}) => HasExactResult

\* C1 amended: whenever some row eligible for the query (a row of the gated
\* documents, or any row when nothing is gated or no row comes from the gated
\* documents) has exactly the hinted payer and tier, a search with both hints
\* returns a result with that payer and tier.
C1_EligibleExactMatchReturned ==
    (Searched /\ BothHints /\ top_k >= 1 /\ ExactRows \cap Eligible # {})
        => HasExactResult

\* a search returned an exact match that the fuzzy prefilter had cut off
C1_Witness ==
    /\ Searched /\ BothHints
    /\ allowed_sources # {}
    /\ ExactRows \cap Eligible # {}
    /\ Range(trace.prefilter) \cap ExactRows = {}
    /\ HasExactResult

\* C2: no two entries of the list search returned share (service, payer, tier).
C2_Diversity ==
    \A a, b \in 1..Len(results) :
        a # b => <<results[a].service, results[a].hmo, results[a].tier>>
                 # <<results[b].service, results[b].hmo, results[b].tier>>

\* two candidates with one key went into the ranking, one came out
C2_Witness ==
    /\ Searched
    /\ top_k >= 2
    /\ Len(cand_idx) = 2
    /\ meta[cand_idx[1]].service = meta[cand_idx[2]].service
    /\ meta[cand_idx[1]].hmo = meta[cand_idx[2]].hmo
    /\ meta[cand_idx[1]].tier = meta[cand_idx[2]].tier
    /\ meta[cand_idx[1]].source # meta[cand_idx[2]].source
    /\ Len(results) = 1

\* C3: with a non-empty knowledge base, the candidates handed to re-ranking
\* are never empty, and a search whose embedding call succeeded (top_k >= 1)
\* returns at least one result.
C3_SafetyFloor ==
    (caller # "none" /\ Len(meta) >= 1 /\ top_k >= 1)
        => /\ cand_idx # <<>>
           /\ outcome = "returned" => results # <<>>

\* the query's keywords map only to documents no row comes from
C3_Witness ==
    /\ Searched
    /\ Len(meta) >= 1
    /\ allowed_sources # {}
    /\ FromAllowed = {}
    /\ results # <<>>

\* C4 as stated: when the query contains a gating keyword, every result comes
\* from a document mapped from a keyword that hit.
C4_ResultsWithinGatedSources ==
    (Searched /\ allowed_sources # {})
        => \A n \in 1..Len(results) : results[n].source \in allowed_sources

\* C4 amended: when the query contains a gating keyword and some row comes
\* from the mapped documents, every candidate and every result comes from
\* them; when the query contains no gating keyword, the prefilter keeps rows
\* of every document (all rows, when they do not exceed its cut-off).
C4_GatingUnlessNoRowGated ==
    /\ (caller # "none" /\ allowed_sources # {} /\ FromAllowed # {})
          => /\ Range(cand_idx) \subseteq FromAllowed
             /\ \A n \in 1..Len(results) : results[n].source \in allowed_sources
    /\ (caller # "none" /\ allowed_sources = {} /\ Len(meta) <= kcut)
          => Range(trace.prefilter) = 1..Len(meta)

\* gating kept a row of another document out of the results
C4_Witness ==
    /\ Searched
    /\ allowed_sources # {}
    /\ FromAllowed # {}
    /\ FromAllowed # 1..Len(meta)
    /\ results # <<>>

\* C5: once every request of the embedding call has failed, search has raised:
\* it returned no list, and answer_question neither returned (so no canned
\* answer) nor called the chat model.
C5_EmbeddingFailureRaises ==
    attempts = MaxAttempts
        => /\ outcome = "raised"
           /\ pc \in Resting
           /\ results = <<>>
           /\ chat_calls = 0
           /\ answer.kind # "returned"
           /\ caller = "router" => answer.kind = "raised"

\* answer_question failed on the embedding service
C5_Witness ==
    /\ caller = "router"
    /\ attempts = MaxAttempts
    /\ answer = Raised("embedding")

NarrowedTo(before, after, Match(_)) ==
    LET matching == {i \in Range(before) : Match(i)}
    IN  /\ Range(after) = IF matching = {} THEN Range(before) ELSE matching
        /\ before # <<>> => after # <<>>

\* C6: payer narrowing leaves the candidates as they were when none has the
\* hinted payer and otherwise keeps exactly those that have it; tier narrowing
\* does the same on the payer-narrowed candidates.
C6_SoftNarrowing ==
    caller # "none"
        => /\ hmo # NoHint
                => NarrowedTo(trace.widened, trace.by_hmo, LAMBDA i : meta[i].hmo = hmo)
           /\ tier # NoHint
                => NarrowedTo(trace.by_hmo, trace.by_tier, LAMBDA i : meta[i].tier = tier)

\* a payer hint that no row carries, and a tier hint that narrowed
C6_Witness ==
    /\ caller # "none"
    /\ BothHints
    /\ Len(meta) >= 2
    /\ \A i \in 1..Len(meta) : meta[i].hmo # hmo
    /\ trace.by_hmo = trace.widened
    /\ Len(trace.by_hmo) >= 2
    /\ Len(trace.by_tier) = 1

\* C10: answer_question calls the chat model exactly when retrieval returned a
\* snippet: on an empty result it returns the canned text with no snippets and
\* makes no chat call; on a non-empty one it makes one chat call, after the
\* search, and returns the search results as snippets.
C10_ChatIffSnippets ==
    /\ chat_calls > 0
          => caller = "router" /\ outcome = "returned" /\ results # <<>> /\ chat_calls = 1
    /\ (caller = "router" /\ outcome = "returned" /\ pc \in Resting)
          => IF results = <<>>
             THEN chat_calls = 0 /\ answer = Returned(NoMatchAnswer, <<>>)
             ELSE chat_calls = 1 /\ answer \in {Returned(LlmAnswer, results), Raised("chat")}

\* an empty retrieval answered with the canned text
C10_Witness ==
    /\ kb_loaded
    /\ caller = "router"
    /\ outcome = "returned"
    /\ answer = Returned(NoMatchAnswer, <<>>)
    /\ chat_calls = 0

-----------------------------------------------------------------------------
(* Properties of the index build *)

\* the index [X, meta] holds the rows, position by position
HoldsRows(index, rows) ==
    /\ Len(index.X) = Len(rows)
    /\ Len(index.meta) = Len(rows)
    /\ \A i \in 1..Len(rows) :
          /\ index.X[i] = [embedding_of |-> make_chunk_text(rows[i])]
          /\ SixFields(index.meta[i]) = SixFields(rows[i])

\* C8: a finished build of N rows wrote an index of N vectors and N metadata
\* records in which position i is the embedding of the chunk text of row i and
\* the six fields of row i; a retriever that booted holds, position by
\* position, the vectors and records of the build whose artifact it loaded.
C8_IndexConsistency ==
    /\ build.pc = "done" => indexFile.exists /\ HoldsRows(indexFile, build.rows)
    /\ kb_loaded
          => \/ HoldsRows([X |-> X, meta |-> meta], OldRows)
             \/ build.pc = "done" /\ HoldsRows([X |-> X, meta |-> meta], build.rows)

\* more rows than one batch, not a multiple of the batch size, built and loaded
C8_Witness ==
    /\ build.pc = "done"
    /\ kb_loaded
    /\ build.batch_size < Len(build.rows)
    /\ Len(build.rows) % build.batch_size # 0
    /\ build.rows[1] # build.rows[Len(build.rows)]
    /\ Len(X) = Len(build.rows)

\* C9: the artifact is written only by the save step, once every batch has
\* been embedded, and then holds every row; a build whose embedding failed
\* ends without having written it.
C9_AllOrNothing ==
    [][/\ indexFile' # indexFile
           => /\ build.pc = "save"
              /\ Len(build.meta) = Len(build.rows)
              /\ HoldsRows(indexFile', build.rows)
       /\ build'.pc = "failed" => indexFile' = indexFile]_vars

\* the embedding of a later batch failed after an earlier batch had succeeded
C9_Witness ==
    /\ build.pc = "failed"
    /\ build.i > 0
    /\ indexFile = Missing

-----------------------------------------------------------------------------
(* Properties of the extractor *)

HasRepeat(rows) ==
    \E i, j \in 1..Len(rows) : i # j /\ SixFields(rows[i]) = SixFields(rows[j])

\* the modes in which the tables of a document, or the document, are read
ModesOf(doc) ==
    IF Tables(doc) = {} THEN {"table_less"}
    ELSE {IF ColHmo(doc.body[k].header) # {} THEN "payer_columns"
          ELSE "no_payer_columns" : k \in Tables(doc)}

\* C7: the rows load_kb has collected hold no two rows equal on the six
\* fields (category, service, payer, tier, text, source) and no row whose
\* text is empty, whatever the documents of the directory are: tables with
\* payer columns, tables without, or no table.
C7_KnowledgeBaseInvariant ==
    kb.pc \in {"loop", "done"}
        => /\ ~HasRepeat(kb.out)
           /\ \A i \in 1..Len(kb.out) : kb.out[i].text # <<>>

\* load_kb returned the rows of two files, read in the three modes, and every
\* file had a row repeated before the deduplication
C7_Witness ==
    /\ kb.pc = "done"
    /\ Len(kb.parsed) >= 2
    /\ \A n \in 1..Len(kb.raw) : HasRepeat(kb.raw[n])
    /\ UNION {ModesOf(kb.dir.files[kb.parsed[n]]) : n \in 1..Len(kb.parsed)}
          = {"payer_columns", "no_payer_columns", "table_less"}
    /\ Len(kb.out) >= 3

-----------------------------------------------------------------------------
(* Properties of collect_user_info *)

\* a function tool call named submit_profile that carries arguments
SubmitsProfile(call) ==
    /\ call.type = "function"
    /\ call.name = "submit_profile"
    /\ call.arguments.kind = "object"
    /\ DOMAIN call.arguments.fields # {}

\* C11: collect_user_info returns profile_confirmed = true only if the
\* response holds a function tool call named submit_profile with non-empty
\* arguments; no tool call, a call of another function, or a submit_profile
\* call whose arguments are empty or do not parse gives false.
C11_ConfirmedOnlyOnSubmittedProfile ==
    collect.kind = "returned"
        => (collect.profile_confirmed
               => \E n \in 1..Len(collect.response.tool_calls) :
                       SubmitsProfile(collect.response.tool_calls[n]))

-----------------------------------------------------------------------------
(* Properties of startup *)

\* C12: kb_loaded is true only once the retriever holds the vectors and the
\* metadata of the index file; a boot on a missing index file fails with the
\* error that names the build script and leaves kb_loaded false; an
\* answer_question call made while kb_loaded is false has failed with
\* "KB not initialized" with no candidate computed, no embed request and no
\* chat call made.
C12_BootOrdering ==
    /\ kb_loaded => indexFile.exists /\ X = indexFile.X /\ meta = indexFile.meta
    /\ pc = "boot_failed" \/ boot_error = IndexNotFound
          => ~indexFile.exists /\ ~kb_loaded /\ boot_error = IndexNotFound
    /\ caller = "router" /\ ~kb_loaded
          => /\ answer = Raised("KB not initialized")
             /\ pc \in Resting
             /\ cand_idx = <<>>
             /\ outcome = "none"
             /\ attempts = 0
             /\ chat_calls = 0

\* the boot failed on a missing index file and a question was asked afterwards
C12_Witness ==
    /\ boot_error = IndexNotFound
    /\ caller = "router"
    /\ answer = Raised("KB not initialized")

\* C14: a missing credential or endpoint of the chat or of the embedding
\* service is detected by the construction of the router or by boot, so no
\* answer_question or collect_user_info call raises the configuration error.
C14_ConfigurationDetectedAtStartup ==
    /\ answer.kind = "raised" => answer.text \notin {ChatEnvMissing, EmbeddingsEnvMissing}
    /\ collect.kind = "raised" => collect.why \notin {ChatEnvMissing, EmbeddingsEnvMissing}

-----------------------------------------------------------------------------
(* Properties of the clients *)

\* C13: one call of embed, of chat or of chat_api makes at most 3 HTTP
\* requests before it returns or raises.
C13_AtMostThreeRequests ==
    client.pc # "off" => Len(client.log) <= MaxAttempts

-----------------------------------------------------------------------------
(* Properties of search on an index without rows *)

EmptyIndexLoaded == kb_loaded /\ Len(meta) = 0
SearchEnded == caller \in {"search", "router"} /\ outcome # "none"

\* C15 as stated: on a loaded index with zero rows, a search whose embedding
\* client is configured returns the empty sequence, whether the embedding
\* service answers or not.
C15_EmptyIndexAlwaysReturnsEmpty ==
    EmptyIndexLoaded /\ SearchEnded /\ embedder = "ready"
        => outcome = "returned" /\ results = <<>>

\* C15, amended: on a loaded index with zero rows, search returns the empty
\* sequence whenever the query embedding is obtained, and raises when the
\* embed call failed three times or the embedding client is not configured.
C15_EmptyIndexReturnsEmptyUnlessEmbeddingFails ==
    EmptyIndexLoaded /\ SearchEnded
        => IF attempts = MaxAttempts \/ embedder = "none"
           THEN outcome = "raised"
           ELSE outcome = "returned" /\ results = <<>>

\* a search with both hints returned on the empty index
C15_Witness ==
    /\ EmptyIndexLoaded
    /\ SearchEnded
    /\ BothHints
    /\ query.keys # {}
    /\ outcome = "returned"
    /\ results = <<>>

-----------------------------------------------------------------------------
(* Properties of the loaded index *)

\* what search returns for its arguments, the similarities of the query
\* vector and the ranking, computed on the index file the process booted on
ResultsOnIndexFile ==
    LET m == indexFile.meta
        cand == Candidates(m, query, hmo, tier, kcut).backfilled
    IN  Walk(m, cand, Score(m, cand, sims, hmo, tier), top_idx, top_k, {}, <<>>)

\* C16: once the index is loaded no step of a search, answer_question or
\* collect_user_info call, successful or failing, changes the loaded vectors
\* or the loaded metadata; so what a search returns is determined by its
\* query, hints, top_k and query embedding and by the index file, whatever
\* calls ran before it.
C16_IndexImmutableAfterBoot ==
    /\ [][kb_loaded => X' = X /\ meta' = meta]_vars
    /\ [](outcome = "returned" => results = ResultsOnIndexFile)

\* a question was answered from two snippets of the loaded index
C16_Witness ==
    /\ kb_loaded
    /\ caller = "router"
    /\ answer.kind = "returned"
    /\ Len(results) >= 2
    /\ X = indexFile.X
    /\ meta = indexFile.meta

-----------------------------------------------------------------------------
(* Properties of the candidate set *)

\* the rows within the gated sources, or every row when no gating applies,
\* that match both hints
ExactPool == {i \in Gated(meta, allowed_sources) : IsExact(meta[i])}
CandidatesComputed == caller \in {"search", "router"} /\ trace # NoTrace

\* C17: with both hints present and an eligible row matching both, the
\* candidates handed to re-ranking are exactly the eligible rows that match
\* both hints, wherever the prefilter ranked them and whatever it cut off;
\* every returned result then matches both hints.
C17_ExactMatchWidening ==
    CandidatesComputed /\ BothHints /\ ExactPool # {}
        => /\ Range(cand_idx) = ExactPool
           /\ Len(cand_idx) = Cardinality(ExactPool)
           /\ \A n \in 1..Len(results) : IsExact(results[n])

\* the prefilter cut off an exact match, which was returned all the same
C17_Witness ==
    /\ CandidatesComputed
    /\ BothHints
    /\ \E i \in ExactPool : i \notin Range(trace.prefilter)
    /\ \E i \in Range(trace.prefilter) : i \notin ExactPool
    /\ outcome = "returned"
    /\ results # <<>>

\* the candidates after narrowing and the safety floor hold no row matching
\* both hints
NoExactCandidate == \A n \in 1..Len(trace.floored) : ~IsExact(meta[trace.floored[n]])
SamePayerRows == {i \in Gated(meta, allowed_sources) : meta[i].hmo = hmo}

\* C18: with both hints present and no candidate matching both after
\* narrowing and the safety floor, the candidates handed to re-ranking are
\* the previous candidates joined with every row of the payer, of any tier,
\* from the gated sources when gating applies; with one hint only, or with
\* a candidate matching both, backfill hands the previous candidates on.
C18_Backfill ==
    CandidatesComputed
        => /\ cand_idx = trace.backfilled
           /\ IF BothHints /\ NoExactCandidate
              THEN /\ Range(cand_idx) = Range(trace.floored) \cup SamePayerRows
                   /\ Len(cand_idx) = Cardinality(Range(cand_idx))
              ELSE cand_idx = trace.floored

\* backfill added a row of the payer that the prefilter had cut off
C18_Witness ==
    /\ CandidatesComputed
    /\ BothHints
    /\ NoExactCandidate
    /\ \E i \in Range(cand_idx) : i \notin Range(trace.floored)
    /\ allowed_sources # {}
    /\ outcome = "returned"

\* the boosted scores of the candidates of the call that has returned
Scores == Score(meta, cand_idx, sims, hmo, tier)
KeyAt(i) == DiversityKey(meta[cand_idx[i]])
\* top_idx is the head of a descending sort of the candidates, of the
\* length of the window
IsSortedWindow ==
    /\ Len(top_idx) = Min(Max(2 * top_k, 10), Len(cand_idx))
    /\ \A n \in 1..Len(top_idx) : top_idx[n] \in 1..Len(cand_idx)
    /\ \A n, o \in 1..Len(top_idx) : n < o
           => top_idx[n] # top_idx[o] /\ Scores[top_idx[n]] >= Scores[top_idx[o]]
    /\ \A n \in 1..Len(top_idx) : \A i \in 1..Len(cand_idx) \ Range(top_idx) :
           Scores[top_idx[n]] >= Scores[i]
\* the places of the window that hold the first entry of their key
FirstOfKey == {n \in 1..Len(top_idx) : \A o \in 1..(n - 1) : KeyAt(top_idx[o]) # KeyAt(top_idx[n])}
Reference ==
    LET kept == ListOfSet(FirstOfKey)
    IN  [j \in 1..Min(top_k, Len(kept)) |->
            ResultOf(meta[cand_idx[top_idx[kept[j]]]], Scores[top_idx[kept[j]]])]

\* C19: the result of search is the reference selection: the candidates
\* sorted by boosted score descending, only the first max(2*top_k, 10)
\* walked, the first entry of each (service, payer, tier) kept, until top_k
\* are kept.  So the result has at most top_k entries, in non-increasing
\* score order, each the highest-scored candidate of its key, and fewer
\* than top_k only when the window holds fewer than top_k distinct keys.
C19_DiversitySelection ==
    Searched /\ top_k >= 1
        => /\ IsSortedWindow
           /\ results = Reference
           /\ Len(results) <= top_k
           /\ \A n, o \in 1..Len(results) : n < o => results[n].score >= results[o].score
           /\ \A n \in 1..Len(results) : \A i \in 1..Len(cand_idx) :
                  KeyAt(i) = DiversityKey(results[n]) => Scores[i] <= results[n].score
           /\ Len(results) < top_k
                  => Cardinality({KeyAt(top_idx[n]) : n \in 1..Len(top_idx)}) < top_k

\* the window cut off a candidate whose key no result has, and the result
\* holds several entries but fewer than top_k
C19_Witness ==
    /\ Searched
    /\ Len(top_idx) < Len(cand_idx)
    /\ \E i \in 1..Len(cand_idx) : \A n \in 1..Len(results) : KeyAt(i) # DiversityKey(results[n])
    /\ Len(results) >= 2
    /\ Len(results) < top_k

MatchesPayer(i) == hmo # NoHint /\ meta[cand_idx[i]].hmo = hmo
MatchesTier(i) == tier # NoHint /\ meta[cand_idx[i]].tier = tier
\* candidate i stands before candidate j in the ranking, or j is cut off
RankedAbove(i, j) ==
    \E n \in 1..Len(top_idx) :
        top_idx[n] = i /\ \A o \in 1..n : top_idx[o] # j

\* C20: the score of a candidate is its similarity times 1.15 when a payer
\* hint is present and equals the row's payer, times 1.10 when a tier hint
\* is present and equals the row's tier; and of two candidates of equal
\* similarity, positive or negative, one matching the payer or the tier
\* hint never has the lower score and is never ranked below one matching
\* neither.
C20_ExactMatchBoosting ==
    Searched
        => /\ \A i \in 1..Len(cand_idx) :
                  Scores[i] = sims[i] * (IF MatchesPayer(i) THEN 115 ELSE 100)
                                      * (IF MatchesTier(i) THEN 110 ELSE 100)
           /\ \A n \in 1..Len(results) : \E i \in 1..Len(cand_idx) :
                  results[n] = ResultOf(meta[cand_idx[i]], Scores[i])
           /\ \A i, j \in 1..Len(cand_idx) :
                  /\ sims[i] = sims[j]
                  /\ MatchesPayer(i) \/ MatchesTier(i)
                  /\ ~MatchesPayer(j) /\ ~MatchesTier(j)
                  => Scores[i] >= Scores[j] /\ ~RankedAbove(j, i)

\* the document of the n-th parsed file and its category
ParsedDoc(n) == kb.dir.files[kb.parsed[n]]
ParsedCategory(n) == category_from_file(kb.parsed[n], ParsedDoc(n))
\* the data cells of row r of table k whose column names no payer
UnmappedCells(doc, k, r) ==
    {j \in 2..Len(doc.body[k].trs[r]) : j \notin ColHmo(doc.body[k].header)}
ServiceOf(doc, k, r, category) ==
    IF clean_text(doc.body[k].trs[r][1]) # <<>>
    THEN clean_text(doc.body[k].trs[r][1]) ELSE category

\* C21: the rows emitted for a table data cell whose column names no payer,
\* in a table without payer columns and in one where only some columns name
\* a payer, carry the payer inferred from the nearby heading text (previous
\* siblings, then ancestors), which is empty only when no alias is found
\* there; the extraction of such a cell never fails.
C21_PayerInference ==
    \A n \in 1..Len(kb.raw) :
        LET doc == ParsedDoc(n)
            name == kb.parsed[n]
            category == ParsedCategory(n)
        IN  \A k \in Tables(doc) : \A r \in 1..Len(doc.body[k].trs) :
                LET inferred == nearest_hmo_heading(doc, k, r)
                IN  /\ ColHmo(doc.body[k].header) = {}
                       => \A i \in 1..Len(TrRows(doc, name, category, k, r)) :
                             TrRows(doc, name, category, k, r)[i].hmo = inferred
                    /\ \A j \in UnmappedCells(doc, k, r) :
                          LET parts == explode_tiers(clean_text(doc.body[k].trs[r][j]))
                          IN  ColHmo(doc.body[k].header) # {}
                              => \A i \in 1..Len(parts) :
                                    \E row \in Range(kb.raw[n]) :
                                        /\ row.service = ServiceOf(doc, k, r, category)
                                        /\ row.tier = parts[i].tier
                                        /\ row.text = parts[i].text
                                        /\ row.text # <<>> => row.hmo = inferred

HeadingNames == {"h1", "h2", "h3", "h4", "strong", "b"}
\* the payer of the last heading before position e that names a payer
HeadingPayer(doc, e) ==
    LET hs == {i \in 1..(e - 1) :
                  /\ doc.body[i].name \in HeadingNames
                  /\ canon_hmo_from_text(clean_text(doc.body[i].text)) # NoHint}
    IN  IF hs = {} THEN NoHint
        ELSE canon_hmo_from_text(
                 clean_text(doc.body[CHOOSE i \in hs : \A o \in hs : o <= i].text))
\* the text before the first colon, or the category
ItemService(txt, category) ==
    IF \E i \in 1..Len(txt) : txt[i] = Colon
    THEN clean_text(SubSeq(txt, 1, FirstColon(txt) - 1)) ELSE category

\* C22: in a document without tables every paragraph or list item with a
\* non-empty text yields at least one row, whose service is the text before
\* the first colon, or else the category, and whose payer is that of the
\* last heading before it that named a payer (empty if none): a paragraph or
\* list item never changes the current payer and is never skipped.
C22_FallbackExtraction ==
    \A n \in 1..Len(kb.raw) :
        LET doc == ParsedDoc(n)
        IN  Tables(doc) = {}
            => \A e \in 1..Len(doc.body) :
                  LET txt == clean_text(doc.body[e].text)
                  IN  doc.body[e].name \in {"p", "li"} /\ txt # <<>>
                      => \E row \in Range(kb.raw[n]) :
                            /\ row.service = ItemService(txt, ParsedCategory(n))
                            /\ row.hmo = HeadingPayer(doc, e)

\* the labels of the text handed to _explode_tiers, and for the n-th label
\* the normalised text that follows it, up to the next label
Labels == TierMatches(explode.text)
Following(n) ==
    clean_text(SubSeq(explode.text, MatchEnd(explode.text, Labels[n]),
                      IF n < Len(Labels) THEN Labels[n + 1] - 1 ELSE Len(explode.text)))
LabelSegment(n) == [tier |-> lower(explode.text[Labels[n]]), text |-> Following(n)]
WithText == {n \in 1..Len(Labels) : Following(n) # <<>>}
FirstLabelOf(seg) == CHOOSE n \in WithText :
                        LabelSegment(n) = seg /\ \A o \in WithText : LabelSegment(o) = seg => n <= o
WholeText == <<[tier |-> NoHint, text |-> clean_text(explode.text)]>>
PairwiseDistinct ==
    \A p, q \in 1..Len(explode.parts) : p # q => explode.parts[p] # explode.parts[q]
\* one segment for each label with a text after it, in order of appearance
OnePerLabelWithText ==
    /\ \A n \in WithText : \E p \in 1..Len(explode.parts) : explode.parts[p] = LabelSegment(n)
    /\ \A p \in 1..Len(explode.parts) : \E n \in WithText : explode.parts[p] = LabelSegment(n)
    /\ \A p, q \in 1..Len(explode.parts) :
           p < q => FirstLabelOf(explode.parts[p]) < FirstLabelOf(explode.parts[q])
HasUntiered == \E p \in 1..Len(explode.parts) : explode.parts[p].tier = NoHint

\* C23: the segments _explode_tiers returns are pairwise distinct on
\* (tier, text); a text without a tier label followed by a colon yields
\* exactly one segment, of empty tier, holding the whole normalised text; a
\* text with labels yields, in order of appearance, one segment for each
\* label with a non-empty text after it, tagged with the canonical tier of
\* the label; a segment of empty tier comes only from a text without labels.
C23_TierSplitting ==
    explode.pc = "returned"
        => /\ PairwiseDistinct
           /\ Labels = <<>> => explode.parts = WholeText
           /\ Labels # <<>> => OnePerLabelWithText
           /\ HasUntiered => Labels = <<>>

\* C23, amended: an empty text yields no segment; a non-empty text in which
\* no label has a text after it, labels or not, yields the one segment of
\* empty tier holding the whole normalised text; the other texts yield the
\* distinct segments of their labels in order of first appearance.
C23_TierSplittingWithFallback ==
    explode.pc = "returned"
        => /\ PairwiseDistinct
           /\ explode.text = <<>> => explode.parts = <<>>
           /\ explode.text # <<>> /\ WithText = {} => explode.parts = WholeText
           /\ WithText # {} => OnePerLabelWithText
           /\ HasUntiered => WithText = {}

\* two labels of different case carry the same text and yield one segment
C23_Witness ==
    /\ explode.pc = "returned"
    /\ Cardinality(WithText) = 2
    /\ explode.text[Labels[1]] # explode.text[Labels[2]]
    /\ Len(explode.parts) = 1
    /\ explode.parts[1].tier = "gold"

\* C24: whenever collect_user_info returns profile_confirmed = true, the
\* returned profile holds a value for each of the eight fields and
\* validate_profile finds no error in it: id and hmo_card are nine digits,
\* age lies in 0..120, hmo and tier are in canonical form.  A submitted
\* profile with an invalid or unknown field is never confirmed.
C24_ConfirmedProfileIsValid ==
    collect.kind = "returned" /\ collect.profile_confirmed
        => /\ \A k \in Keep : Has(collect.profile, k)
           /\ validate_profile(collect.profile).errors = {}
           /\ collect.profile["hmo"] \in {HMO_CANON[a] : a \in DOMAIN HMO_CANON}
           /\ collect.profile["tier"] \in {TIER_CANON[a] : a \in DOMAIN TIER_CANON}

\* the request of the prompt just handled was answered with a confirmed profile
ConfirmedReply(session) == session.last.how = "ok" /\ session.last.confirmed

\* C25: the phase starts as "collect"; it becomes "qa" only on an answered
\* collect request with profile_confirmed = true; from "qa" it returns to
\* "collect" only through new_conversation, which also resets messages,
\* profile, used snippets and the greeting flag; each prompt calls exactly
\* one endpoint, the one of the phase; a failed or unconfirmed response
\* leaves phase and profile unchanged.
C25_ConversationPhase ==
    [][IF ui.pc = "start"
       THEN ui'.phase = "collect"
       ELSE /\ ui.phase = "collect" /\ ui'.phase = "qa"
                  => ui'.last.called = <<"collect">> /\ ConfirmedReply(ui')
            /\ ui.phase = "qa" /\ ui'.phase = "collect" => ui'.pc = "rerun"
            /\ ui.pc = "idle" /\ ui'.pc = "rerun"
                  => /\ ui'.phase = "collect"
                     /\ ui'.messages = <<>>
                     /\ ui'.profile = EmptyDict
                     /\ ui'.used_snippets = <<>>
                     /\ ~ui'.greeted
            /\ ui'.prompts # ui.prompts
                  => /\ ui'.last.called = <<ui.phase>>
                     /\ ~ConfirmedReply(ui')
                           => ui'.phase = ui.phase /\ ui'.profile = ui.profile]_vars

\* a conversation that had reached "qa" and was answered there is started
\* anew
C25_Witness ==
    /\ ui.pc = "rerun"
    /\ ui.phase = "collect"
    /\ ui.last.called = <<"qa">>
    /\ ui.prompts >= 2

====
